---- MODULE Spec2Model ----
(***************************************************************************)
(* clipcode: ephemeral clip sharing over a TTL key-value store (Redis).     *)
(* Every request handler is a stateless process whose only shared state is  *)
(* the store; a handler is split into one action per store call (await).    *)
(* Keys carry a remaining time to live in seconds; Tick lets time pass.     *)
(***************************************************************************)
EXTENDS Integers, Sequences, FiniteSets, TLC

\* ------------------------------------------------------------------ bounds
\* Calls past the limit that one window is followed for.
MaxOver == 1
\* Number of time steps one behaviour takes.
MaxTicks == 2
\* Requests of one kind the clients send where the kind is budgeted.
MaxRequests == 2
\* Requests that store the record the other requests of a behaviour read.
MaxWrites == 1

\* ------------------------------------------------------- program constants
DEFAULT_TTL_SECONDS == 300
ALLOWED_TTLS == {180, 300, 600, 1800, 3600}
MAX_TEXT_SIZE == 5000
MAX_LINKS == 10
MAX_LINK_SIZE == 2000
PAIRING_TTL_SECONDS == 60 * 60 * 24 * 30
PAIR_CODE_TTL_SECONDS == 600
MAX_CODE_ATTEMPTS == 5
MAX_PAIR_CODE_ATTEMPTS == 5
SHARE_LIMIT == 20
SHARE_WINDOW_SECONDS == 60
FETCH_LIMIT == 60
FETCH_WINDOW_SECONDS == 60
FETCH_MAX_CODE_LENGTH == 12
POLL_FALLBACK_TTL == 60
ROOM_TTL_SECONDS == 60 * 60 * 2
MAX_ROOM_CODE_ATTEMPTS == 10
ACK_FALLBACK_TTL == 60

\* redis.ttl: -2 for a key that does not exist, -1 for a key with no expiry.
NoKey == -2
NoExpiry == -1

\* ------------------------------------------------------------ the universe
Ips == {"ip1"}
\* generateNumericCode(3..5): the candidates the generator can draw.
Codes == {"482", "7731"}
DeviceS == "device_S"
DeviceR == "device_R"
DeviceT == "device_T"
ValidDeviceIds == {DeviceS, DeviceR, DeviceT}
\* generateCode(6): pairing codes.
PairCodes == {"A7F3KQ", "B2M9XZ"}
RoomCodes == {"123456"}
Kinds == {"share", "fetch", "create", "confirm", "ack", "poll", "room", "join",
          "unlink", "status"}

\* --------------------------------------------------------- string helpers
\* String(v).trim() on the request texts of the universe.
Trim(t) ==
    CASE t = " " -> ""
      [] t = " memo " -> "memo"
      [] t = " https://a.example " -> "https://a.example"
      [] OTHER -> t

\* .length of the (trimmed) strings of the universe.
Size(t) ==
    CASE t = "" -> 0
      [] t = "memo" -> 4
      [] t = "essay" -> MAX_TEXT_SIZE + 1
      [] t = "https://a.example" -> 17
      [] t = "http://b.example" -> 16
      [] t = "ftp://x" -> 7
      [] t = "https://long.example" -> MAX_LINK_SIZE + 1
      [] OTHER -> 8

isHttpUrl(value) ==
    value \in {"https://a.example", "http://b.example", "https://long.example"}

normalizeDeviceId(value) ==
    IF Trim(value) \in ValidDeviceIds THEN Trim(value) ELSE ""

\* String(rawCode).trim().toUpperCase() of the fetch route.
NormalizeCode(rawCode) ==
    CASE rawCode = " 482 " -> "482"
      [] rawCode = "abc" -> "ABC"
      [] OTHER -> rawCode

CodeLength(code) ==
    CASE code = "" -> 0
      [] code = "482" -> 3
      [] code = "7731" -> 4
      [] code = "ABC" -> 3
      [] code = "1234567890123" -> 13
      [] OTHER -> 6

\* links.map(trim).filter(Boolean)
RECURSIVE CleanLinks(_)
CleanLinks(raw) ==
    IF raw = <<>> THEN <<>>
    ELSE IF Trim(Head(raw)) = "" THEN CleanLinks(Tail(raw))
         ELSE <<Trim(Head(raw))>> \o CleanLinks(Tail(raw))

Range(s) == {s[i] : i \in DOMAIN s}

\* String(v).trim().replace(/\D/g, "").slice(0, 6)
normalizeRoomCode(value) ==
    CASE value = "123-456" -> "123456"
      [] value = "lobby" -> ""
      [] OTHER -> value

\* String(v).trim().toUpperCase().replace(/[^A-Z0-9]/g, "").slice(0, 6)
normalizePairCode(value) ==
    CASE value = "a7f3kq" -> "A7F3KQ"
      [] value = " - " -> ""
      [] OTHER -> value

\* createMessageId(): the n-th fresh id.
createMessageId(n) ==
    CASE n = 1 -> "msg-0001"
      [] n = 2 -> "msg-0002"
      [] n = 3 -> "msg-0003"
      [] n = 5 -> "msg-0005"
      [] n = 6 -> "msg-0006"
      [] OTHER -> "msg-0004"

\* String(v).trim(), "" unless it matches /^[a-zA-Z0-9_-]{8,100}$/
normalizeMessageId(value) ==
    CASE value = " msg-0001 " -> "msg-0001"
      [] value = "short" -> ""
      [] OTHER -> value

\* ---------------------------------------------------------------- state
VARIABLES
    clips,        \* clipcode:<code>             -> [links, text, ttl]
    rl,           \* rl:<prefix>:<ip>            -> [count, ttl]
    pairCodes,    \* clipcode:pair:code:<code>   -> [receiverDeviceId, ttl]
    senderPairs,  \* clipcode:pair:sender:<id>   -> [receiverDeviceId, ttl]
    rooms,        \* clipcode:room:<code>        -> [members, ttl]
    nearby,       \* clipcode:nearby:<id>        -> [queue, items, ttl]
    fe,           \* GET /api/fetch/:code handlers
    sh,           \* POST /api/share handlers
    pcr,          \* POST /api/pair/create handlers
    cf,           \* POST /api/pair/confirm handlers
    ak,           \* POST /api/nearby/ack handlers
    po,           \* GET /api/nearby/poll handlers
    rc,           \* POST /api/room/create handlers
    rj,           \* POST /api/room/join handlers
    un,           \* POST /api/pair/unlink handlers
    ps,           \* GET /api/pair/status handlers
    inp,          \* what the clients of this run may send
    budget,       \* per kind: requests the clients may still send (-1: any number)
    ticksLeft,    \* time steps left
    nextMsg,      \* message ids handed out so far (createMessageId is fresh)
    served,       \* per code: payload responses since the clip was last written
    seen,         \* per code: a Fetch completed with the payload since then
    calls,        \* per rate key: calls counted since the key was created
    winAge,       \* per rate key: seconds since the first call of its window
    armAge,       \* per rate key: seconds since its TTL was armed (-1: not yet)
    linked,       \* per pairing code: confirms answered linked:true since issued
    unlinked      \* senders whose unlink has answered and who have not paired since

store == <<clips, rl, pairCodes, senderPairs, rooms, nearby>>
handlers == <<fe, sh, pcr, cf, ak, po, rc, rj, un, ps>>
ghost == <<served, seen, calls, winAge, armAge, linked, unlinked>>
vars == <<clips, rl, pairCodes, senderPairs, rooms, nearby, fe, sh, pcr, cf, ak,
          po, rc, rj, un, ps,
          inp, budget, ticksLeft, nextMsg, served, seen, calls, winAge, armAge,
          linked, unlinked>>

RlKeys == {"share", "fetch"} \X Ips

NoClip == [links |-> <<>>, text |-> "", ttl |-> NoKey]
NoCount == [count |-> 0, ttl |-> NoKey]
NoPair == [receiverDeviceId |-> "", ttl |-> NoKey]
NoRoom == [hostDeviceId |-> "", members |-> <<>>, ttl |-> NoKey]
NoMail == [queue |-> FALSE, items |-> <<>>, ttl |-> NoKey]

\* A key is in the store.
Live(rec) == rec.ttl # NoKey

\* ---------------------------------------------------------- the store, time
\* redis.ttl(key): the remaining seconds, rounded; a key in its last second
\* may read 0.
TtlReads(rec) ==
    IF rec.ttl = 1 THEN {0, 1} ELSE {rec.ttl}

\* One namespace after d seconds: keys whose time is up are gone.
Aged(f, d, none) ==
    [k \in DOMAIN f |->
        IF f[k].ttl > 0 /\ f[k].ttl <= d THEN none
        ELSE IF f[k].ttl > d THEN [f[k] EXCEPT !.ttl = @ - d]
        ELSE f[k]]

LiveTtls ==
    {clips[k].ttl : k \in DOMAIN clips} \cup {rl[k].ttl : k \in DOMAIN rl}
    \cup {pairCodes[k].ttl : k \in DOMAIN pairCodes}
    \cup {senderPairs[k].ttl : k \in DOMAIN senderPairs}
    \cup {rooms[k].ttl : k \in DOMAIN rooms}
    \cup {nearby[k].ttl : k \in DOMAIN nearby}

\* The steps time takes: one second, up to an expiry, or to its last second.
TickSteps ==
    {1} \cup {t \in LiveTtls : t > 0} \cup {t - 1 : t \in {u \in LiveTtls : u > 1}}

Tick ==
    /\ ticksLeft > 0
    /\ \E d \in TickSteps :
        /\ clips' = Aged(clips, d, NoClip)
        /\ rl' = Aged(rl, d, NoCount)
        /\ pairCodes' = Aged(pairCodes, d, NoPair)
        /\ senderPairs' = Aged(senderPairs, d, NoPair)
        /\ rooms' = Aged(rooms, d, NoRoom)
        /\ nearby' = Aged(nearby, d, NoMail)
        /\ winAge' = [k \in RlKeys |-> IF winAge[k] >= 0 THEN winAge[k] + d ELSE winAge[k]]
        /\ armAge' = [k \in RlKeys |-> IF armAge[k] >= 0 THEN armAge[k] + d ELSE armAge[k]]
        \* (ghost) an expired mailbox is no longer the one its polls read
        /\ po' = [p \in DOMAIN po |->
                    IF \E r \in DOMAIN nearby :
                          /\ r = po[p].receiverDeviceId
                          /\ nearby[r].ttl > 0 /\ nearby[r].ttl <= d
                    THEN [po[p] EXCEPT !.fresh = FALSE] ELSE po[p]]
    /\ ticksLeft' = ticksLeft - 1
    /\ UNCHANGED <<fe, sh, pcr, cf, ak, rc, rj, inp, budget, nextMsg, served, seen,
                   calls, linked, un, ps, unlinked>>

\* A client sends one more request of a kind.
Spend(kind) ==
    /\ budget[kind] # 0
    /\ budget' = [budget EXCEPT ![kind] = IF @ > 0 THEN @ - 1 ELSE @]

ConfirmSlots == {"c1", "c2"}
AckSlots == {"a1", "a2"}
PollSlots == {"o1", "o2"}

\* (ghost) A write, delete or expiry of a mailbox: the polls that read it
\* before no longer describe it.
Stale(polls, receiverDeviceId) ==
    [p \in PollSlots |->
        IF polls[p].receiverDeviceId = receiverDeviceId
        THEN [polls[p] EXCEPT !.fresh = FALSE] ELSE polls[p]]

\* ------------------------------------------------------------ rate limiter
\* redis.incr: the post-increment value.
IncrResult(key) == IF Live(rl[key]) THEN rl[key].count + 1 ELSE 1

Incremented(key) ==
    [rl EXCEPT ![key] =
        IF Live(@) THEN [@ EXCEPT !.count = @ + 1]
        ELSE [count |-> 1, ttl |-> NoExpiry]]

\* if (count === 1): this caller arms the window.
ArmsAlways(count) == TRUE
ArmsWindow(count) == count = 1

\* redis.expire(key, windowSeconds): nothing happens to a missing key.
Expired(key, windowSeconds) ==
    [rl EXCEPT ![key] = IF Live(@) THEN [@ EXCEPT !.ttl = windowSeconds] ELSE @]

\* const resetSeconds = ttl > 0 ? ttl : params.windowSeconds
ResetSecondsRaw(ttl, windowSeconds) == ttl
ResetSeconds(ttl, windowSeconds) == IF ttl > 0 THEN ttl ELSE windowSeconds

\* if (count > params.limit) throw RATE_LIMIT
RateLimitedAtLimit(count, limit) == count >= limit
RateLimitedNever(count, limit) == FALSE
RateLimited(count, limit) == count > limit

\* The ghost clocks of a rate key when a call increments it.
AgesAfterIncr(key) ==
    /\ calls' = [calls EXCEPT ![key] = IF Live(rl[key]) THEN @ + 1 ELSE 1]
    /\ winAge' = [winAge EXCEPT ![key] = IF Live(rl[key]) THEN @ ELSE 0]
    /\ armAge' = [armAge EXCEPT ![key] = IF Live(rl[key]) THEN @ ELSE -1]

AgesAfterExpire(key) ==
    /\ armAge' = [armAge EXCEPT ![key] = IF Live(rl[key]) /\ @ < 0 THEN 0 ELSE @]
    /\ UNCHANGED <<winAge, calls, po, rc, rj, un, ps, unlinked>>

\* The window is followed up to MaxOver calls past the limit.
WithinCap(key, limit) == rl[key].count < limit + MaxOver

\* What a call of rateLimitOrThrow knows once it has incremented the counter:
\* the count, and (ghost) whether it is past the limit-th call of the window,
\* and whether it comes more than a window after the window's first call, or
\* after the arming of its TTL.
RlCalled(h, key, limit, windowSeconds) ==
    [h EXCEPT !.count = IncrResult(key),
              !.over = (IF Live(rl[key]) THEN calls[key] + 1 ELSE 1) > limit,
              !.winLate = winAge[key] > windowSeconds,
              !.armLate = armAge[key] > windowSeconds,
              !.pc = IF ArmsWindow(IncrResult(key)) THEN "rl_expire" ELSE "rl_ttl"]

TooManyRequests(resetSeconds) ==
    [status |-> 429, retryAfterSeconds |-> resetSeconds, retryAfter |-> resetSeconds]

Failure(status) == [status |-> status]

\* (ghost) The keys of clips, pairing codes, rooms and mailboxes as a request
\* arrives, recorded when the run asks for it, and whether they are as
\* recorded.
Audit == IF inp.audit THEN <<clips, pairCodes, rooms, nearby>> ELSE <<>>
Untouched(before) == ~inp.audit \/ before = <<clips, pairCodes, rooms, nearby>>

\* for (let i = 0; i < attempts; i++): round i is the last one.
LastAttemptNever(i, attempts) == FALSE
LastAttempt(i, attempts) == ~(i + 1 < attempts)
NoResponse == [status |-> 0]

\* ------------------------------------------------------ GET /api/fetch/:code
FetchSlots == {"f1", "f2"}

FetchIdle ==
    [pc |-> "idle", ip |-> "", code |-> "", count |-> 0, over |-> FALSE,
     winLate |-> FALSE, armLate |-> FALSE, reset |-> 0, got |-> NoClip,
     after |-> FALSE, before |-> <<>>, clean |-> TRUE, resp |-> NoResponse]

\* A handler that has answered keeps its response and what the properties read.
FetchDone(h, resp) ==
    [FetchIdle EXCEPT !.pc = "done", !.over = h.over, !.winLate = h.winLate,
                      !.armLate = h.armLate, !.after = h.after, !.got = h.got,
                      !.clean = h.clean,
                      !.reset = IF resp.status = 429 THEN h.reset ELSE 0,
                      !.resp = resp]

FetchKey(f) == <<"fetch", fe[f].ip>>

\* JSON.parse of the stored value (or the bare string taken as the text); the
\* handler reads its text only.
ParseClip(raw) == [text |-> raw.text]

\* The 200 response.
FetchOk(code, payload) ==
    [status |-> 200, code |-> code, text |-> payload.text, consumed |-> TRUE]

\* redis.del(key) of the clip.
ClipsKept(code) == clips
ClipsAfterDel(code) == [clips EXCEPT ![code] = NoClip]

FetchStart(f) ==
    /\ fe[f].pc \in {"idle", "done"}
    /\ Spend("fetch")
    /\ \E ip \in Ips, rawCode \in inp.fetchCodes :
        LET key == <<"fetch", ip>>
            code == NormalizeCode(rawCode)
        IN  /\ WithinCap(key, FETCH_LIMIT)
            /\ fe' = [fe EXCEPT ![f] =
                    RlCalled([FetchIdle EXCEPT !.ip = ip, !.code = code,
                                               !.before = Audit,
                                               !.after = code \in Codes /\ seen[code]],
                             key, FETCH_LIMIT, FETCH_WINDOW_SECONDS)]
            /\ rl' = Incremented(key)
            /\ AgesAfterIncr(key)
    /\ UNCHANGED <<clips, pairCodes, senderPairs, rooms, nearby, sh, pcr, cf, ak,
                   inp, ticksLeft, nextMsg, served, seen, linked, po, rc, rj, un, ps, unlinked>>

FetchRlExpire(f) ==
    /\ fe[f].pc = "rl_expire"
    /\ rl' = Expired(FetchKey(f), FETCH_WINDOW_SECONDS)
    /\ AgesAfterExpire(FetchKey(f))
    /\ fe' = [fe EXCEPT ![f].pc = "rl_ttl"]
    /\ UNCHANGED <<clips, pairCodes, senderPairs, rooms, nearby, sh, pcr, cf, ak,
                   inp, budget, ticksLeft, nextMsg, served, seen, linked, po, rc, rj, un, ps, unlinked>>

FetchRlTtl(f) ==
    /\ fe[f].pc = "rl_ttl"
    /\ \E ttl \in TtlReads(rl[FetchKey(f)]) :
        LET h == [fe[f] EXCEPT !.reset = ResetSeconds(ttl, FETCH_WINDOW_SECONDS)]
        IN  fe' = [fe EXCEPT ![f] =
                IF RateLimited(h.count, FETCH_LIMIT)
                \* (ghost) clean: no key was written up to this answer
                THEN FetchDone([h EXCEPT !.clean = Untouched(fe[f].before)],
                               TooManyRequests(h.reset))
                ELSE IF h.code = "" \/ CodeLength(h.code) > FETCH_MAX_CODE_LENGTH
                THEN FetchDone(h, Failure(400))
                ELSE [h EXCEPT !.pc = "get", !.count = 0, !.reset = 0]]
    /\ UNCHANGED <<store, sh, pcr, cf, ak, inp, budget, ticksLeft, nextMsg, ghost, po, rc, rj, un, ps>>

FetchGet(f) ==
    /\ fe[f].pc = "get"
    /\ LET code == fe[f].code
           raw == IF code \in Codes THEN clips[code] ELSE NoClip
           h == [fe[f] EXCEPT !.got = [raw EXCEPT !.ttl = IF Live(raw) THEN 0 ELSE NoKey]]
       IN  fe' = [fe EXCEPT ![f] =
               IF ~Live(raw) THEN FetchDone(h, Failure(404))
               ELSE IF ParseClip(raw).text = "" THEN FetchDone(h, Failure(404))
               ELSE [h EXCEPT !.pc = "del"]]
    /\ UNCHANGED <<store, sh, pcr, cf, ak, inp, budget, ticksLeft, nextMsg, ghost, po, rc, rj, un, ps>>

FetchDel(f) ==
    /\ fe[f].pc = "del"
    /\ clips' = ClipsAfterDel(fe[f].code)
    /\ fe' = [fe EXCEPT ![f] = FetchDone(@, FetchOk(@.code, ParseClip(@.got)))]
    /\ served' = [served EXCEPT ![fe[f].code] = @ + 1]
    /\ seen' = [seen EXCEPT ![fe[f].code] = TRUE]
    /\ UNCHANGED <<rl, pairCodes, senderPairs, rooms, nearby, sh, pcr, cf, ak, inp,
                   budget, ticksLeft, nextMsg, calls, winAge, armAge, linked, po, rc, rj, un, ps, unlinked>>

Fetch ==
    \E f \in FetchSlots :
        \/ FetchStart(f)
        \/ FetchRlExpire(f)
        \/ FetchRlTtl(f)
        \/ FetchGet(f)
        \/ FetchDel(f)

\* ---------------------------------------------------------- POST /api/share
ShareSlots == {"s1", "s2"}

NoBody == [links |-> <<>>, text |-> "", ttlSeconds |-> 0, senderDeviceId |-> "",
           roomCode |-> ""]

ShareIdle ==
    [pc |-> "idle", ip |-> "", body |-> NoBody, links |-> <<>>, text |-> "",
     ttlSeconds |-> 0, sender |-> "", roomCode |-> "", count |-> 0,
     over |-> FALSE, winLate |-> FALSE, armLate |-> FALSE, reset |-> 0,
     i |-> 0, code |-> "", targets |-> <<>>, nTargets |-> 0,
     pairFound |-> FALSE, roomMatched |-> FALSE, roomFound |-> FALSE,
     reason |-> "no_sender_device", skipped |-> FALSE, raced |-> FALSE,
     clobbered |-> FALSE, verdict |-> 0, stored |-> FALSE, pairLive |-> FALSE,
     dropped |-> FALSE, roomLive |-> FALSE, roomOthers |-> FALSE,
     afterUnlink |-> FALSE, aged |-> FALSE, refresh |-> "", wrote |-> <<>>,
     before |-> <<>>, clean |-> TRUE, roomMember |-> FALSE,
     resp |-> NoResponse]

ShareDone(h, resp) ==
    [ShareIdle EXCEPT !.pc = "done", !.over = h.over, !.winLate = h.winLate,
                      !.armLate = h.armLate, !.skipped = h.skipped,
                      !.sender = h.sender, !.roomCode = h.roomCode,
                      !.pairFound = h.pairFound, !.roomMatched = h.roomMatched,
                      !.roomFound = h.roomFound, !.verdict = h.verdict,
                      !.stored = h.stored, !.pairLive = h.pairLive,
                      !.dropped = h.dropped, !.roomLive = h.roomLive,
                      !.roomOthers = h.roomOthers, !.afterUnlink = h.afterUnlink,
                      !.raced = h.raced, !.aged = h.aged,
                      !.refresh = h.refresh, !.wrote = h.wrote,
                      !.clean = h.clean, !.roomMember = h.roomMember,
                      !.clobbered = h.clobbered,
                      !.reset = IF resp.status = 429 THEN h.reset ELSE 0,
                      !.resp = resp]

ShareKey(s) == <<"share", sh[s].ip>>

\* The validation of the request body: 0 when it passes, else the status.
ValidationNone(links, text) == 0
ValidationStatus(links, text) ==
    IF Len(links) > MAX_LINKS THEN 400
    ELSE IF links = <<>> /\ text = "" THEN 400
    ELSE IF \E n \in DOMAIN links :
                Size(links[n]) > MAX_LINK_SIZE \/ ~isHttpUrl(links[n]) THEN 400
    ELSE IF Size(text) > MAX_TEXT_SIZE THEN 413
    ELSE 0

\* normalizeRoomMembers: valid device ids, each once, in first-seen order.
RECURSIVE normalizeRoomMembers(_)
normalizeRoomMembers(input) ==
    IF input = <<>> THEN <<>>
    ELSE LET init == normalizeRoomMembers(SubSeq(input, 1, Len(input) - 1))
             id == normalizeDeviceId(input[Len(input)])
         IN  IF id = "" \/ id \in Range(init) THEN init ELSE Append(init, id)

\* nearbyTargetIds.add(id): a Set keeps insertion order and adds once.
RECURSIVE AddAll(_, _)
AddAll(targets, ids) ==
    IF ids = <<>> THEN targets
    ELSE AddAll(IF Head(ids) \in Range(targets) THEN targets
                ELSE Append(targets, Head(ids)), Tail(ids))

\* The reason code of the response, from the handler's flags.
NearbyReasonAsSet(h, nearbyQueued) == IF nearbyQueued THEN "queued" ELSE h.reason
NearbyReason(h, nearbyQueued) ==
    LET r1 == IF nearbyQueued THEN "queued" ELSE h.reason
        r2 == IF h.sender # "" /\ r1 = "no_sender_device" THEN "not_paired" ELSE r1
        r3 == IF ~nearbyQueued /\ h.sender # "" /\ h.roomCode # ""
              THEN IF ~h.roomMatched THEN "room_not_found"
                   ELSE IF ~h.roomFound THEN "room_empty"
                   ELSE IF ~h.pairFound /\ r2 # "invalid_pair_payload"
                        THEN "not_paired" ELSE r2
              ELSE r2
    IN  IF h.sender # "" /\ ~nearbyQueued /\ h.roomCode = ""
           /\ r3 # "invalid_pair_payload"
        THEN "not_paired" ELSE r3

ShareOk(h, nearbyQueued) ==
    [status |-> 200, code |-> h.code, expiresIn |-> h.ttlSeconds,
     nearbyQueued |-> nearbyQueued, nearbyReason |-> NearbyReason(h, nearbyQueued),
     nearbyTargets |-> h.nTargets]

\* What follows the room lookup: publish to the targets, or answer.
AfterRoom(h) ==
    IF h.targets # <<>> THEN [h EXCEPT !.pc = "publish", !.nTargets = Len(h.targets)]
    ELSE ShareDone(h, ShareOk(h, FALSE))

\* What follows the pairing lookup.
AfterPair(h) ==
    IF h.sender # "" /\ h.roomCode # "" THEN [h EXCEPT !.pc = "get_room"]
    ELSE AfterRoom(h)

\* (ghost) The status the validation rules give a body: 400 for more than
\* MAX_LINKS links, a link that is too long or not http(s), or no content;
\* 413 for a text that is too long; 0 for a valid body.
Rejection(body) ==
    LET links == SelectSeq(body.links, LAMBDA l : Trim(l) # "")
        text == Trim(body.text)
    IN  IF Len(links) > MAX_LINKS THEN 400
        ELSE IF \E n \in DOMAIN links :
                    Size(Trim(links[n])) > MAX_LINK_SIZE \/ ~isHttpUrl(Trim(links[n]))
             THEN 400
        ELSE IF links = <<>> /\ text = "" THEN 400
        ELSE IF Size(text) > MAX_TEXT_SIZE THEN 413
        ELSE 0

ShareStart(s) ==
    /\ sh[s].pc \in {"idle", "done"}
    /\ Spend("share")
    /\ \E ip \in Ips, body \in inp.bodies :
        LET key == <<"share", ip>>
        IN  /\ WithinCap(key, SHARE_LIMIT)
            /\ sh' = [sh EXCEPT ![s] =
                    RlCalled([ShareIdle EXCEPT !.ip = ip, !.body = body,
                                               !.before = Audit,
                                               !.verdict = Rejection(body),
                                               !.afterUnlink =
                                                   normalizeDeviceId(body.senderDeviceId)
                                                       \in unlinked],
                             key, SHARE_LIMIT, SHARE_WINDOW_SECONDS)]
            /\ rl' = Incremented(key)
            /\ AgesAfterIncr(key)
    /\ UNCHANGED <<clips, pairCodes, senderPairs, rooms, nearby, fe, pcr, cf, ak,
                   inp, ticksLeft, nextMsg, served, seen, linked, po, rc, rj, un, ps, unlinked>>

ShareRlExpire(s) ==
    /\ sh[s].pc = "rl_expire"
    /\ rl' = Expired(ShareKey(s), SHARE_WINDOW_SECONDS)
    /\ AgesAfterExpire(ShareKey(s))
    /\ sh' = [sh EXCEPT ![s].pc = "rl_ttl"]
    /\ UNCHANGED <<clips, pairCodes, senderPairs, rooms, nearby, fe, pcr, cf, ak,
                   inp, budget, ticksLeft, nextMsg, served, seen, linked, po, rc, rj, un, ps, unlinked>>

\* The TTL lookup of the limiter, then the parsing and validation of the body.
ShareRlTtl(s) ==
    /\ sh[s].pc = "rl_ttl"
    /\ \E ttl \in TtlReads(rl[ShareKey(s)]) :
        LET body == sh[s].body
            h == [sh[s] EXCEPT
                    !.reset = ResetSeconds(ttl, SHARE_WINDOW_SECONDS),
                    !.links = CleanLinks(body.links),
                    !.text = Trim(body.text),
                    !.ttlSeconds = IF body.ttlSeconds \in ALLOWED_TTLS
                                   THEN body.ttlSeconds ELSE DEFAULT_TTL_SECONDS,
                    !.sender = normalizeDeviceId(body.senderDeviceId),
                    !.roomCode = normalizeRoomCode(body.roomCode),
                    !.body = NoBody]
            invalid == ValidationStatus(h.links, h.text)
        IN  sh' = [sh EXCEPT ![s] =
                IF RateLimited(h.count, SHARE_LIMIT)
                THEN ShareDone([h EXCEPT !.clean = Untouched(sh[s].before)],
                               TooManyRequests(h.reset))
                ELSE IF invalid # 0 THEN ShareDone(h, Failure(invalid))
                ELSE [h EXCEPT !.pc = "exists", !.count = 0, !.reset = 0]]
    /\ UNCHANGED <<store, fe, pcr, cf, ak, inp, budget, ticksLeft, nextMsg, ghost, po, rc, rj, un, ps>>

\* redis.exists(`clipcode:${candidate}`)
CodeNeverTaken(candidate) == FALSE
CodeTaken(candidate) == Live(clips[candidate])

\* One round of the generation loop: draw a candidate, ask the store.
ShareExists(s) ==
    /\ sh[s].pc = "exists"
    /\ \E candidate \in inp.codes :
        sh' = [sh EXCEPT ![s] =
            IF ~CodeTaken(candidate)
            THEN [@ EXCEPT !.pc = "set", !.code = candidate, !.i = 0, !.raced = FALSE]
            ELSE IF ~LastAttempt(@.i, MAX_CODE_ATTEMPTS)
            THEN [@ EXCEPT !.i = @ + 1, !.skipped = TRUE]
            \* (ghost) clean: no key was written up to this answer
            ELSE ShareDone([@ EXCEPT !.skipped = TRUE,
                                     !.clean = Untouched(sh[s].before)],
                           Failure(500))]
    /\ UNCHANGED <<store, fe, pcr, cf, ak, inp, budget, ticksLeft, nextMsg, ghost, po, rc, rj, un, ps>>

\* The value redis.set stores for the clip.
StoredClip(h) == [links |-> h.links, text |-> h.text, ttl |-> h.ttlSeconds]

ShareSetClip(s) ==
    /\ sh[s].pc = "set"
    /\ LET code == sh[s].code
           h == [sh[s] EXCEPT !.clobbered = Live(clips[code]), !.stored = TRUE]
       IN  /\ clips' = [clips EXCEPT ![code] = StoredClip(h)]
           /\ served' = [served EXCEPT ![code] = 0]
           /\ seen' = [seen EXCEPT ![code] = FALSE]
           /\ sh' = [t \in ShareSlots |->
                  IF t = s
                  THEN IF h.sender # "" THEN [h EXCEPT !.pc = "get_pair"]
                       ELSE AfterPair(h)
                  ELSE IF sh[t].pc = "set" /\ sh[t].code = code
                       THEN [sh[t] EXCEPT !.raced = TRUE]
                       ELSE sh[t]]
           \* (ghost) a Fetch in flight no longer comes after the code's last read
           /\ fe' = [f \in FetchSlots |->
                  IF fe[f].code = code /\ fe[f].pc \notin {"idle", "done"}
                  THEN [fe[f] EXCEPT !.after = FALSE] ELSE fe[f]]
    /\ UNCHANGED <<rl, pairCodes, senderPairs, rooms, nearby, pcr, cf, ak, inp,
                   budget, ticksLeft, nextMsg, calls, winAge, armAge, linked, po, rc, rj, un, ps, unlinked>>

\* The receiver a stored pairing record resolves to ("" when there is none).
ResolveNothing(raw) == ""
ResolveReceiver(raw) ==
    IF Live(raw) THEN normalizeDeviceId(raw.receiverDeviceId) ELSE ""

ShareGetPair(s) ==
    /\ sh[s].pc = "get_pair"
    /\ LET receiverDeviceId == ResolveReceiver(senderPairs[sh[s].sender])
       IN  sh' = [sh EXCEPT ![s] =
               IF receiverDeviceId # ""
               THEN [@ EXCEPT !.targets = <<receiverDeviceId>>, !.pairFound = TRUE,
                              !.pairLive = TRUE, !.pc = "expire_pair"]
               ELSE AfterPair([@ EXCEPT !.reason = "invalid_pair_payload",
                                        !.pairLive = Live(senderPairs[sh[s].sender])])]
    /\ UNCHANGED <<store, fe, pcr, cf, ak, inp, budget, ticksLeft, nextMsg, ghost, po, rc, rj, un, ps>>

\* redis.expire(senderKey, PAIRING_TTL_SECONDS): a key that is there gets the
\* full lifetime and keeps its value; a key that is gone stays gone.
ExpireKeepsTtl(pair) == pair
ExpirePair(pair) ==
    IF Live(pair) THEN [pair EXCEPT !.ttl = PAIRING_TTL_SECONDS] ELSE pair

\* redis.expire of the sender's pairing: refreshed to the full 30 days.
ShareExpirePair(s) ==
    /\ sh[s].pc = "expire_pair"
    /\ senderPairs' = [senderPairs EXCEPT ![sh[s].sender] = ExpirePair(@)]
    /\ LET before == senderPairs[sh[s].sender]
           after == senderPairs'[sh[s].sender]
       IN  sh' = [sh EXCEPT ![s] =
               AfterPair([@ EXCEPT
                   \* (ghost) the pairing had aged; what the call did to it
                   !.aged = Live(before) /\ before.ttl < PAIRING_TTL_SECONDS,
                   !.refresh =
                       IF ~Live(before)
                       THEN IF after = before THEN "gone" ELSE "created"
                       ELSE IF after.receiverDeviceId # before.receiverDeviceId
                            THEN "moved"
                       ELSE IF after.ttl = PAIRING_TTL_SECONDS THEN "reset"
                       ELSE "kept"])]
    /\ UNCHANGED <<clips, rl, pairCodes, rooms, nearby, fe, pcr, cf, ak, inp,
                   budget, ticksLeft, nextMsg, ghost, po, rc, rj, un, ps>>

\* members.filter((member) => member.deviceId !== senderDeviceId)
AllMembers(members, senderDeviceId) == members
OtherMembers(members, senderDeviceId) ==
    SelectSeq(members, LAMBDA m : m # senderDeviceId)

ShareGetRoom(s) ==
    /\ sh[s].pc = "get_room"
    /\ LET raw == IF sh[s].roomCode \in RoomCodes THEN rooms[sh[s].roomCode] ELSE NoRoom
           members == normalizeRoomMembers(raw.members)
           targetMembers == OtherMembers(members, sh[s].sender)
       IN  sh' = [sh EXCEPT ![s] =
               AfterRoom([@ EXCEPT !.roomMatched = Live(raw),
                                   !.targets = AddAll(@, targetMembers),
                                   !.roomFound = targetMembers # <<>>,
                                   \* (ghost) the room is in the store; it
                                   \* lists a device other than the sender
                                   !.roomLive = raw.ttl # NoKey,
                                   \* (ghost) the sender is on the room's list
                                   !.roomMember =
                                       sh[s].sender \in Range(raw.members),
                                   !.roomOthers =
                                       \E n \in DOMAIN raw.members :
                                           raw.members[n] # sh[s].sender])]
    /\ UNCHANGED <<store, fe, pcr, cf, ak, inp, budget, ticksLeft, nextMsg, ghost, po, rc, rj, un, ps>>

\* The message stored for one target.
NearbyPayloadWithoutId(h, messageId) ==
    [messageId |-> "", code |-> h.code, links |-> h.links, text |-> h.text]
NearbyPayload(h, messageId) ==
    [messageId |-> createMessageId(messageId), code |-> h.code, links |-> h.links,
     text |-> h.text]

\* One round of the publish loop: a fresh message replaces the target's key.
SharePublish(s) ==
    /\ sh[s].pc = "publish"
    /\ LET receiverDeviceId == Head(sh[s].targets)
           payload == NearbyPayload(sh[s], nextMsg + 1)
           \* (ghost) the stored value is not the old queue with the message
           \* added at its end
           \* (ghost) wrote: the mailboxes written, with the id stored in each
           h == [sh[s] EXCEPT !.targets = Tail(@),
                              !.dropped = @ \/ <<payload>> #
                                  Append(nearby[receiverDeviceId].items, payload),
                              !.wrote = Append(@, <<receiverDeviceId,
                                                    payload.messageId>>)]
       IN  /\ nearby' = [nearby EXCEPT ![receiverDeviceId] =
                  [queue |-> FALSE, items |-> <<payload>>, ttl |-> h.ttlSeconds]]
           /\ nextMsg' = nextMsg + 1
           /\ sh' = [sh EXCEPT ![s] =
                  IF h.targets = <<>> THEN ShareDone(h, ShareOk(h, TRUE)) ELSE h]
           /\ po' = Stale(po, receiverDeviceId)
    /\ UNCHANGED <<clips, rl, pairCodes, senderPairs, rooms, fe, pcr, cf, ak, inp,
                   budget, ticksLeft, ghost, rc, rj, un, ps>>

\* A store call of the handler fails: the catch block answers 500.
ShareStoreFails(s) ==
    /\ inp.faults
    /\ sh[s].pc \notin {"idle", "done"}
    /\ sh' = [sh EXCEPT ![s] = ShareDone(@, Failure(500))]
    /\ UNCHANGED <<store, fe, pcr, cf, ak, po, rc, rj, inp, budget, ticksLeft,
                   nextMsg, ghost, un, ps>>

\* The request up to the end of its validation.
ShareAdmit ==
    \E s \in ShareSlots :
        \/ ShareStart(s)
        \/ ShareRlExpire(s)
        \/ ShareRlTtl(s)

ShareClip ==
    \/ ShareAdmit
    \/ \E s \in ShareSlots :
        \/ ShareExists(s)
        \/ ShareSetClip(s)

ShareNearby ==
    \E s \in ShareSlots :
        \/ ShareGetPair(s)
        \/ ShareExpirePair(s)
        \/ ShareGetRoom(s)
        \/ SharePublish(s)

\* ------------------------------------------------- POST /api/pair/create
PairSlots == {"p1"}

PairIdle ==
    [pc |-> "idle", receiverDeviceId |-> "", i |-> 0, code |-> "",
     before |-> <<>>, clean |-> TRUE, resp |-> NoResponse]

PairDone(resp) == [PairIdle EXCEPT !.pc = "done", !.resp = resp]

PairStart(p) ==
    /\ pcr[p].pc \in {"idle", "done"}
    /\ Spend("create")
    /\ \E raw \in inp.receivers :
        LET receiverDeviceId == normalizeDeviceId(raw)
        IN  pcr' = [pcr EXCEPT ![p] =
                IF receiverDeviceId = "" THEN PairDone(Failure(400))
                ELSE [PairIdle EXCEPT !.pc = "exists", !.before = Audit,
                                      !.receiverDeviceId = receiverDeviceId]]
    /\ UNCHANGED <<store, fe, sh, cf, ak, inp, ticksLeft, nextMsg, ghost, po, rc, rj, un, ps>>

\* One round of the loop: generateCode(6), then redis.exists.
PairExists(p) ==
    /\ pcr[p].pc = "exists"
    /\ \E candidate \in inp.pairCandidates :
        pcr' = [pcr EXCEPT ![p] =
            IF ~Live(pairCodes[candidate])
            THEN [@ EXCEPT !.pc = "set", !.code = candidate, !.i = 0]
            ELSE IF ~LastAttempt(@.i, MAX_PAIR_CODE_ATTEMPTS) THEN [@ EXCEPT !.i = @ + 1]
            ELSE [PairDone(Failure(500)) EXCEPT
                     !.clean = Untouched(pcr[p].before)]]
    /\ UNCHANGED <<store, fe, sh, cf, ak, inp, budget, ticksLeft, nextMsg, ghost, po, rc, rj, un, ps>>

PairSet(p) ==
    /\ pcr[p].pc = "set"
    /\ pairCodes' = [pairCodes EXCEPT ![pcr[p].code] =
            [receiverDeviceId |-> pcr[p].receiverDeviceId,
             ttl |-> PAIR_CODE_TTL_SECONDS]]
    /\ pcr' = [pcr EXCEPT ![p] =
            PairDone([status |-> 200, pairCode |-> @.code,
                      expiresIn |-> PAIR_CODE_TTL_SECONDS])]
    \* (ghost) the code is issued anew: confirms of its earlier issue no
    \* longer count for it
    /\ linked' = [linked EXCEPT ![pcr[p].code] = 0]
    /\ cf' = [c \in ConfirmSlots |->
            IF cf[c].pairCode = pcr[p].code /\ cf[c].pc \in {"set", "del"}
            THEN [cf[c] EXCEPT !.stale = TRUE] ELSE cf[c]]
    /\ UNCHANGED <<clips, rl, senderPairs, rooms, nearby, fe, sh, ak, inp, budget,
                   ticksLeft, nextMsg, served, seen, calls, winAge, armAge, po, rc, rj, un, ps, unlinked>>

PairCreate ==
    \E p \in PairSlots :
        \/ PairStart(p)
        \/ PairExists(p)
        \/ PairSet(p)

\* ------------------------------------------------ POST /api/pair/confirm
ConfirmIdle ==
    [pc |-> "idle", pairCode |-> "", senderDeviceId |-> "",
     receiverDeviceId |-> "", live |-> FALSE, wrote |-> FALSE, stale |-> FALSE,
     paired |-> FALSE, resp |-> NoResponse]

ConfirmDone(h, resp) ==
    [ConfirmIdle EXCEPT !.pc = "done", !.pairCode = h.pairCode,
                        !.senderDeviceId = h.senderDeviceId, !.live = h.live,
                        !.wrote = h.wrote, !.paired = h.paired, !.resp = resp]

ConfirmStart(c) ==
    /\ cf[c].pc \in {"idle", "done"}
    /\ Spend("confirm")
    /\ \E rawCode \in inp.pairCodes, rawSender \in inp.senders :
        LET h == [ConfirmIdle EXCEPT !.pairCode = normalizePairCode(rawCode),
                                     !.senderDeviceId = normalizeDeviceId(rawSender)]
        IN  cf' = [cf EXCEPT ![c] =
                IF h.pairCode = "" \/ h.senderDeviceId = ""
                THEN ConfirmDone(h, Failure(400))
                ELSE [h EXCEPT !.pc = "get"]]
    /\ UNCHANGED <<store, fe, sh, pcr, ak, inp, ticksLeft, nextMsg, ghost, po, rc, rj, un, ps>>

\* if (!receiverDeviceId) return 404
PairCodeFoundAlways(receiverDeviceId) == TRUE
PairCodeFound(receiverDeviceId) == receiverDeviceId # ""

ConfirmGet(c) ==
    /\ cf[c].pc = "get"
    /\ LET raw == IF cf[c].pairCode \in PairCodes THEN pairCodes[cf[c].pairCode]
                  ELSE NoPair
           h == [cf[c] EXCEPT !.receiverDeviceId = normalizeDeviceId(raw.receiverDeviceId),
                              !.live = Live(raw)]
       IN  cf' = [cf EXCEPT ![c] =
               IF ~PairCodeFound(h.receiverDeviceId) THEN ConfirmDone(h, Failure(404))
               ELSE [h EXCEPT !.pc = "set"]]
    /\ UNCHANGED <<store, fe, sh, pcr, ak, inp, budget, ticksLeft, nextMsg, ghost, po, rc, rj, un, ps>>

\* The value under the sender's key, and its TTL: { ex: PAIRING_TTL_SECONDS }
SenderPairForCodeTtl(receiverDeviceId) ==
    [receiverDeviceId |-> receiverDeviceId, ttl |-> PAIR_CODE_TTL_SECONDS]
SenderPair(receiverDeviceId) ==
    [receiverDeviceId |-> receiverDeviceId, ttl |-> PAIRING_TTL_SECONDS]

\* redis.set of the sender's pairing, 30 days.
ConfirmSet(c) ==
    /\ cf[c].pc = "set"
    /\ senderPairs' = [senderPairs EXCEPT ![cf[c].senderDeviceId] =
            SenderPair(cf[c].receiverDeviceId)]
    /\ cf' = [cf EXCEPT ![c].pc = "del", ![c].wrote = TRUE]
    \* (ghost) the sender is paired again
    /\ unlinked' = unlinked \ {cf[c].senderDeviceId}
    \* (ghost) an unlink that has read this key and is about to delete it
    /\ un' = [u \in DOMAIN un |->
                IF un[u].pc = "del_reverse"
                   /\ un[u].receiverDeviceId = cf[c].senderDeviceId
                THEN [un[u] EXCEPT !.raced = TRUE] ELSE un[u]]
    /\ UNCHANGED <<clips, rl, pairCodes, rooms, nearby, fe, sh, pcr, ak, inp, budget,
                   ticksLeft, nextMsg, served, seen, calls, winAge, armAge, linked,
                   po, rc, rj, ps>>

\* redis.del of the pairing code, then the linked:true response.
ConfirmDel(c) ==
    /\ cf[c].pc = "del"
    /\ pairCodes' = [k \in PairCodes |->
            IF k = cf[c].pairCode THEN NoPair ELSE pairCodes[k]]
    \* (ghost) paired: the sender's pairing is in the store, naming the
    \* receiver of the code, as the code is deleted
    /\ LET h == [cf[c] EXCEPT !.paired =
                    /\ Live(senderPairs[cf[c].senderDeviceId])
                    /\ senderPairs[cf[c].senderDeviceId].receiverDeviceId =
                           cf[c].receiverDeviceId]
       IN  cf' = [cf EXCEPT ![c] =
               ConfirmDone(h, [status |-> 200, linked |-> TRUE,
                               receiverDeviceId |-> h.receiverDeviceId,
                               expiresIn |-> PAIRING_TTL_SECONDS])]
    /\ linked' = [k \in PairCodes |->
            IF k = cf[c].pairCode /\ ~cf[c].stale THEN linked[k] + 1 ELSE linked[k]]
    /\ UNCHANGED <<clips, rl, senderPairs, rooms, nearby, fe, sh, pcr, ak, inp,
                   budget, ticksLeft, nextMsg, served, seen, calls, winAge, armAge, po, rc, rj, un, ps, unlinked>>

Confirm ==
    \E c \in ConfirmSlots :
        \/ ConfirmStart(c)
        \/ ConfirmGet(c)
        \/ ConfirmSet(c)
        \/ ConfirmDel(c)

\* --------------------------------------------------- POST /api/nearby/ack
AckIdle ==
    [pc |-> "idle", receiverDeviceId |-> "", messageId |-> "", remaining |-> <<>>,
     ex |-> 0, present |-> FALSE, wrote |-> FALSE, items |-> <<>>,
     after |-> <<>>, kept |-> FALSE, extended |-> FALSE, stale |-> FALSE,
     resp |-> NoResponse]

AckDone(h, resp) ==
    [AckIdle EXCEPT !.pc = "done", !.receiverDeviceId = h.receiverDeviceId,
                    !.messageId = h.messageId, !.present = h.present,
                    !.wrote = h.wrote, !.items = h.items, !.after = h.after,
                    !.kept = h.kept, !.extended = h.extended, !.stale = h.stale,
                    !.resp = resp]

AckResponse(consumed) == [status |-> 200, ok |-> TRUE, consumed |-> consumed]

\* A stored object with an items array is a queue; any other is one item.
parseNearbyItems(raw) == IF Live(raw) THEN raw.items ELSE <<>>

\* items.filter(item => normalizeMessageId(item.messageId) !== messageId)
RemainingByPosition(items, messageId) == Tail(items)
Remaining(items, messageId) ==
    SelectSeq(items, LAMBDA item : normalizeMessageId(item.messageId) # messageId)

\* const consumed = remaining.length < items.length
ConsumedAlways(items, remaining) == TRUE
Consumed(items, remaining) == Len(remaining) < Len(items)

AckStart(a) ==
    /\ ak[a].pc \in {"idle", "done"}
    /\ Spend("ack")
    /\ \E rawReceiver \in inp.ackReceivers, rawId \in inp.messageIds :
        LET h == [AckIdle EXCEPT !.receiverDeviceId = normalizeDeviceId(rawReceiver),
                                 !.messageId = normalizeMessageId(rawId)]
        IN  ak' = [ak EXCEPT ![a] =
                IF h.receiverDeviceId = "" \/ h.messageId = ""
                THEN AckDone(h, Failure(400))
                ELSE [h EXCEPT !.pc = "get"]]
    /\ UNCHANGED <<store, fe, sh, pcr, cf, inp, ticksLeft, nextMsg, ghost, po, rc, rj, un, ps>>

AckGet(a) ==
    /\ ak[a].pc = "get"
    /\ LET raw == nearby[ak[a].receiverDeviceId]
           items == parseNearbyItems(raw)
           remaining == Remaining(items, ak[a].messageId)
           \* (ghost) the mailbox holds the message when it is read; the items
           \* read
           h == [ak[a] EXCEPT !.present =
                    \E n \in DOMAIN raw.items :
                        Live(raw) /\ raw.items[n].messageId = ak[a].messageId,
                    !.items = items]
       IN  ak' = [ak EXCEPT ![a] =
               IF ~Live(raw) THEN AckDone(h, AckResponse(FALSE))
               ELSE IF ~Consumed(items, remaining) THEN AckDone(h, AckResponse(FALSE))
               ELSE IF remaining = <<>> THEN [h EXCEPT !.pc = "del"]
               ELSE [h EXCEPT !.pc = "ttl", !.remaining = remaining]]
    /\ UNCHANGED <<store, fe, sh, pcr, cf, inp, budget, ticksLeft, nextMsg, ghost, po, rc, rj, un, ps>>

\* The last item is acknowledged: redis.del(key).
AckDel(a) ==
    /\ ak[a].pc = "del"
    /\ nearby' = [nearby EXCEPT ![ak[a].receiverDeviceId] = NoMail]
    \* (ghost) stale: the mailbox is no longer the one this request read;
    \* after: the items it leaves; kept: the key is there after it
    /\ ak' = [ak EXCEPT ![a] =
            AckDone([@ EXCEPT !.wrote = TRUE, !.after = <<>>, !.kept = FALSE,
                              !.stale = nearby[ak[a].receiverDeviceId].items # ak[a].items],
                    AckResponse(TRUE))]
    /\ po' = Stale(po, ak[a].receiverDeviceId)
    /\ UNCHANGED <<clips, rl, pairCodes, senderPairs, rooms, fe, sh, pcr, cf, inp,
                   budget, ticksLeft, nextMsg, ghost, rc, rj, un, ps>>

\* const ttl = await redis.ttl(key); const ex = ttl > 0 ? ttl : 60
AckTtl(a) ==
    /\ ak[a].pc = "ttl"
    /\ \E ttl \in TtlReads(nearby[ak[a].receiverDeviceId]) :
        LET ex == IF ttl > 0 THEN ttl ELSE ACK_FALLBACK_TTL
            \* (ghost) the seconds the key has left as its TTL is looked up
            remaining == IF Live(nearby[ak[a].receiverDeviceId])
                         THEN nearby[ak[a].receiverDeviceId].ttl ELSE 0
        IN  ak' = [ak EXCEPT ![a].pc = "set", ![a].ex = ex,
                             ![a].extended = ex > remaining]
    /\ UNCHANGED <<store, fe, sh, pcr, cf, inp, budget, ticksLeft, nextMsg, ghost, po, rc, rj, un, ps>>

\* redis.set(key, {version: 2, items: remaining}, {ex})
AckSet(a) ==
    /\ ak[a].pc = "set"
    /\ nearby' = [nearby EXCEPT ![ak[a].receiverDeviceId] =
            [queue |-> TRUE, items |-> ak[a].remaining, ttl |-> ak[a].ex]]
    /\ ak' = [ak EXCEPT ![a] =
            AckDone([@ EXCEPT !.wrote = TRUE, !.after = ak[a].remaining, !.kept = TRUE,
                              !.stale = nearby[ak[a].receiverDeviceId].items # ak[a].items],
                    AckResponse(TRUE))]
    /\ po' = Stale(po, ak[a].receiverDeviceId)
    /\ UNCHANGED <<clips, rl, pairCodes, senderPairs, rooms, fe, sh, pcr, cf, inp,
                   budget, ticksLeft, nextMsg, ghost, rc, rj, un, ps>>

\* The acknowledgement of a mailbox of one item, which is what Share stores.
Ack ==
    \E a \in AckSlots :
        \/ AckStart(a)
        \/ AckGet(a)
        \/ AckDel(a)

\* The rewrite of a longer queue, once its TTL is read.
AckRewrite ==
    \E a \in AckSlots :
        \/ AckTtl(a)
        \/ AckSet(a)

\* -------------------------------------------------- GET /api/nearby/poll
NoItem == [messageId |-> "", code |-> "", links |-> <<>>, text |-> ""]

PollIdle ==
    [pc |-> "idle", receiverDeviceId |-> "", remaining |-> <<>>, ex |-> 0,
     head |-> NoItem, fresh |-> FALSE, wrote |-> FALSE, items |-> <<>>,
     after |-> <<>>, extended |-> FALSE, gone |-> {}, emptied |-> FALSE,
     resp |-> NoResponse]

PollDone(h, resp) ==
    [PollIdle EXCEPT !.pc = "done", !.receiverDeviceId = h.receiverDeviceId,
                     !.head = h.head, !.fresh = h.fresh, !.wrote = h.wrote,
                     !.items = h.items, !.after = h.after,
                     !.extended = h.extended, !.gone = h.gone,
                     !.emptied = h.emptied, !.resp = resp]

NotFound == [status |-> 200, found |-> FALSE, item |-> NoItem]
Found(item) == [status |-> 200, found |-> TRUE, item |-> item]

PollStart(p) ==
    /\ po[p].pc \in {"idle", "done"}
    /\ Spend("poll")
    /\ \E rawReceiver \in inp.pollReceivers :
        LET \* (ghost) gone: the items the polls of this client consumed so
            \* far; emptied: its last poll consumed the only item
            h == [PollIdle EXCEPT
                    !.receiverDeviceId = normalizeDeviceId(rawReceiver),
                    !.gone = po[p].gone \cup
                             (IF po[p].wrote /\ po[p].resp.found
                              THEN {po[p].head} ELSE {}),
                    !.emptied = po[p].wrote /\ po[p].resp.found
                                /\ po[p].after = <<>>]
        IN  po' = [po EXCEPT ![p] =
                IF h.receiverDeviceId = "" THEN PollDone(h, Failure(400))
                ELSE [h EXCEPT !.pc = "get"]]
    /\ UNCHANGED <<store, fe, sh, pcr, cf, ak, rc, rj, inp, ticksLeft, nextMsg, ghost, un, ps>>

\* The item of the response, from the stored head of the queue.
PollItem(head) ==
    [messageId |-> normalizeMessageId(head.messageId), code |-> Trim(head.code),
     links |-> head.links, text |-> Trim(head.text)]

\* if (!messageId): an item without an id cannot be acknowledged.
HeadAlwaysHasId(head) == TRUE
HeadNeverHasId(head) == FALSE
HeadHasId(head) == normalizeMessageId(head.messageId) # ""

\* redis.get(key), then the head of the queue.
PollGet(p) ==
    /\ po[p].pc = "get"
    /\ LET raw == nearby[po[p].receiverDeviceId]
           items == parseNearbyItems(raw)
       IN  po' = [po EXCEPT ![p] =
               IF ~Live(raw) THEN PollDone(@, NotFound)
               ELSE IF items = <<>> THEN [@ EXCEPT !.pc = "del_empty"]
               ELSE LET h == [@ EXCEPT !.head = Head(items), !.fresh = TRUE,
                                       !.items = items]
                    IN  IF HeadHasId(h.head) THEN PollDone(h, Found(PollItem(h.head)))
                        ELSE IF Tail(items) = <<>> THEN [h EXCEPT !.pc = "del"]
                        ELSE [h EXCEPT !.pc = "ttl", !.remaining = Tail(items)]]
    /\ UNCHANGED <<store, fe, sh, pcr, cf, ak, rc, rj, inp, budget, ticksLeft,
                   nextMsg, ghost, un, ps>>

\* A stored value with no usable item: redis.del(key), found:false.
PollDelEmpty(p) ==
    /\ po[p].pc = "del_empty"
    /\ nearby' = [nearby EXCEPT ![po[p].receiverDeviceId] = NoMail]
    /\ po' = [Stale(po, po[p].receiverDeviceId) EXCEPT ![p] =
                PollDone([po[p] EXCEPT !.wrote = TRUE], NotFound)]
    /\ UNCHANGED <<clips, rl, pairCodes, senderPairs, rooms, fe, sh, pcr, cf, ak,
                   rc, rj, inp, budget, ticksLeft, nextMsg, ghost, un, ps>>

\* A single item without an id is consumed by the poll: redis.del(key).
PollDel(p) ==
    /\ po[p].pc = "del"
    /\ nearby' = [nearby EXCEPT ![po[p].receiverDeviceId] = NoMail]
    /\ po' = [Stale(po, po[p].receiverDeviceId) EXCEPT ![p] =
                PollDone([po[p] EXCEPT !.wrote = TRUE, !.fresh = FALSE,
                                       !.after = <<>>],
                         Found(PollItem(po[p].head)))]
    /\ UNCHANGED <<clips, rl, pairCodes, senderPairs, rooms, fe, sh, pcr, cf, ak,
                   rc, rj, inp, budget, ticksLeft, nextMsg, ghost, un, ps>>

\* const ttl = await redis.ttl(key); ex: ttl > 0 ? ttl : 60
PollTtl(p) ==
    /\ po[p].pc = "ttl"
    /\ \E ttl \in TtlReads(nearby[po[p].receiverDeviceId]) :
        LET ex == IF ttl > 0 THEN ttl ELSE POLL_FALLBACK_TTL
            \* (ghost) the seconds the key has left as its TTL is looked up
            remaining == IF Live(nearby[po[p].receiverDeviceId])
                         THEN nearby[po[p].receiverDeviceId].ttl ELSE 0
        IN  po' = [po EXCEPT ![p].pc = "set", ![p].ex = ex,
                             ![p].extended = ex > remaining]
    /\ UNCHANGED <<store, fe, sh, pcr, cf, ak, rc, rj, inp, budget, ticksLeft,
                   nextMsg, ghost, un, ps>>

\* redis.set(key, {version: 2, items: remaining}, {ex})
PollSet(p) ==
    /\ po[p].pc = "set"
    /\ nearby' = [nearby EXCEPT ![po[p].receiverDeviceId] =
            [queue |-> TRUE, items |-> po[p].remaining, ttl |-> po[p].ex]]
    /\ po' = [Stale(po, po[p].receiverDeviceId) EXCEPT ![p] =
                PollDone([po[p] EXCEPT !.wrote = TRUE, !.fresh = FALSE,
                                       !.after = po[p].remaining],
                         Found(PollItem(po[p].head)))]
    /\ UNCHANGED <<clips, rl, pairCodes, senderPairs, rooms, fe, sh, pcr, cf, ak,
                   rc, rj, inp, budget, ticksLeft, nextMsg, ghost, un, ps>>

\* The poll of a mailbox whose items carry ids, which is what Share stores.
Poll ==
    \E p \in PollSlots :
        \/ PollStart(p)
        \/ PollGet(p)

\* The poll of a stored value that holds no usable item, or an item with no id.
PollLegacy ==
    \E p \in PollSlots :
        \/ PollDelEmpty(p)
        \/ PollDel(p)
        \/ PollTtl(p)
        \/ PollSet(p)

\* ------------------------------------------------- POST /api/room/create
RoomSlots == {"r1"}

RoomIdle == [pc |-> "idle", hostDeviceId |-> "", i |-> 0, roomCode |-> "",
             free |-> FALSE, before |-> <<>>, clean |-> TRUE,
             resp |-> NoResponse]

RoomDone(h, resp) ==
    [RoomIdle EXCEPT !.pc = "done", !.hostDeviceId = h.hostDeviceId,
                     !.free = h.free, !.clean = h.clean, !.resp = resp]

RoomOk(roomCode, expiresIn, memberCount) ==
    [status |-> 200, roomCode |-> roomCode, expiresIn |-> expiresIn,
     memberCount |-> memberCount]

RoomStart(r) ==
    /\ rc[r].pc \in {"idle", "done"}
    /\ Spend("room")
    /\ \E rawHost \in inp.hosts :
        LET hostDeviceId == normalizeDeviceId(rawHost)
        IN  rc' = [rc EXCEPT ![r] =
                IF hostDeviceId = "" THEN RoomDone(RoomIdle, Failure(400))
                ELSE [RoomIdle EXCEPT !.pc = "exists", !.hostDeviceId = hostDeviceId,
                                      !.before = Audit]]
    /\ UNCHANGED <<store, fe, sh, pcr, cf, ak, po, rj, inp, ticksLeft, nextMsg, ghost, un, ps>>

\* One round of the loop: generateNumericCode(6), redis.exists.
RoomExists(r) ==
    /\ rc[r].pc = "exists"
    /\ \E candidate \in inp.roomCandidates :
        rc' = [rc EXCEPT ![r] =
            \* (ghost) free: the candidate had no live room at this check
            IF ~Live(rooms[candidate])
            THEN [@ EXCEPT !.pc = "set", !.roomCode = candidate, !.i = 0,
                           !.free = TRUE]
            ELSE IF ~LastAttempt(@.i, MAX_ROOM_CODE_ATTEMPTS) THEN [@ EXCEPT !.i = @ + 1]
            ELSE RoomDone([@ EXCEPT !.clean = Untouched(rc[r].before)],
                          Failure(500))]
    /\ UNCHANGED <<store, fe, sh, pcr, cf, ak, po, rj, inp, budget, ticksLeft,
                   nextMsg, ghost, un, ps>>

\* members: [{deviceId: hostDeviceId, ...}]
RoomSeedNobody(hostDeviceId) == <<>>
RoomSeed(hostDeviceId) == <<hostDeviceId>>

\* redis.set of the room, the host its only member.
RoomSet(r) ==
    /\ rc[r].pc = "set"
    /\ rooms' = [rooms EXCEPT ![rc[r].roomCode] =
            [hostDeviceId |-> rc[r].hostDeviceId,
             members |-> RoomSeed(rc[r].hostDeviceId), ttl |-> ROOM_TTL_SECONDS]]
    /\ rc' = [rc EXCEPT ![r] = RoomDone(@, RoomOk(@.roomCode, ROOM_TTL_SECONDS, 1))]
    /\ UNCHANGED <<clips, rl, pairCodes, senderPairs, nearby, fe, sh, pcr, cf, ak,
                   po, rj, inp, budget, ticksLeft, nextMsg, ghost, un, ps>>

RoomCreate ==
    \E r \in RoomSlots :
        \/ RoomStart(r)
        \/ RoomExists(r)
        \/ RoomSet(r)

\* --------------------------------------------------- POST /api/room/join
JoinSlots == {"j1", "j2"}

JoinIdle ==
    [pc |-> "idle", roomCode |-> "", deviceId |-> "", members |-> <<>>,
     hostDeviceId |-> "", expiresIn |-> 0, rejoin |-> FALSE, before |-> 0, extended |-> FALSE,
     recreated |-> FALSE, resp |-> NoResponse]

JoinDone(h, resp) ==
    [JoinIdle EXCEPT !.pc = "done", !.roomCode = h.roomCode,
                     !.deviceId = h.deviceId, !.rejoin = h.rejoin,
                     !.before = h.before, !.extended = h.extended,
                     !.recreated = h.recreated, !.resp = resp]

\* normalizeMembers: valid device ids, each once, in first-seen order.
normalizeMembers(input) == normalizeRoomMembers(input)

\* members.find((entry) => entry.deviceId === deviceId)
ExistingNever(members, deviceId) == FALSE
Existing(members, deviceId) == deviceId \in Range(members)

\* The member list the Join stores: the caller is added unless it is there.
WithCallerAppended(members, deviceId) == Append(members, deviceId)
WithCaller(members, deviceId) ==
    IF Existing(members, deviceId) THEN members ELSE Append(members, deviceId)

\* hostDeviceId: normalizeDeviceId(payload.hostDeviceId) || deviceId
KeptHost(hostDeviceId, deviceId) ==
    IF normalizeDeviceId(hostDeviceId) # "" THEN normalizeDeviceId(hostDeviceId)
    ELSE deviceId

JoinStart(j) ==
    /\ rj[j].pc \in {"idle", "done"}
    /\ Spend("join")
    /\ \E rawCode \in inp.joinCodes, rawDevice \in inp.joiners :
        LET h == [JoinIdle EXCEPT !.roomCode = normalizeRoomCode(rawCode),
                                  !.deviceId = normalizeDeviceId(rawDevice)]
        IN  rj' = [rj EXCEPT ![j] =
                IF h.roomCode = "" \/ h.deviceId = "" THEN JoinDone(h, Failure(400))
                ELSE [h EXCEPT !.pc = "get"]]
    /\ UNCHANGED <<store, fe, sh, pcr, cf, ak, po, rc, inp, ticksLeft, nextMsg, ghost, un, ps>>

\* redis.get of the room, then the member list with the caller in it.
JoinGet(j) ==
    /\ rj[j].pc = "get"
    /\ LET raw == IF rj[j].roomCode \in RoomCodes THEN rooms[rj[j].roomCode] ELSE NoRoom
           members == normalizeMembers(raw.members)
           \* (ghost) the caller is in the stored list; the length of that list
           h == [rj[j] EXCEPT
                    !.rejoin = \E n \in DOMAIN raw.members :
                                   raw.members[n] = rj[j].deviceId,
                    !.before = Len(raw.members)]
       IN  rj' = [rj EXCEPT ![j] =
               IF ~Live(raw) THEN JoinDone(h, Failure(404))
               ELSE [h EXCEPT !.pc = "ttl",
                              !.members = WithCaller(members, h.deviceId),
                              !.hostDeviceId = KeptHost(raw.hostDeviceId, h.deviceId)]]
    /\ UNCHANGED <<store, fe, sh, pcr, cf, ak, po, rc, inp, budget, ticksLeft,
                   nextMsg, ghost, un, ps>>

\* const ttl = await redis.ttl(roomKey); expiresIn = ttl > 0 ? ttl : ROOM_TTL_SECONDS
JoinTtl(j) ==
    /\ rj[j].pc = "ttl"
    /\ \E ttl \in TtlReads(rooms[rj[j].roomCode]) :
        LET expiresIn == IF ttl > 0 THEN ttl ELSE ROOM_TTL_SECONDS
            \* (ghost) the seconds the room has left as its TTL is looked up
            remaining == IF Live(rooms[rj[j].roomCode])
                         THEN rooms[rj[j].roomCode].ttl ELSE 0
        IN  rj' = [rj EXCEPT ![j].pc = "set",
                             ![j].expiresIn = expiresIn,
                             ![j].extended = expiresIn > remaining]
    /\ UNCHANGED <<store, fe, sh, pcr, cf, ak, po, rc, inp, budget, ticksLeft,
                   nextMsg, ghost, un, ps>>

\* redis.set(roomKey, nextPayload, {ex: expiresIn})
JoinSet(j) ==
    /\ rj[j].pc = "set"
    /\ rooms' = [rooms EXCEPT ![rj[j].roomCode] =
            [hostDeviceId |-> rj[j].hostDeviceId, members |-> rj[j].members,
             ttl |-> rj[j].expiresIn]]
    \* (ghost) recreated: the room was gone as this write stored it
    /\ LET h == [rj[j] EXCEPT !.recreated = ~Live(rooms[rj[j].roomCode])]
       IN  rj' = [rj EXCEPT ![j] =
               JoinDone(h, RoomOk(h.roomCode, h.expiresIn, Len(h.members)))]
    /\ UNCHANGED <<clips, rl, pairCodes, senderPairs, nearby, fe, sh, pcr, cf, ak,
                   po, rc, inp, budget, ticksLeft, nextMsg, ghost, un, ps>>

Join ==
    \E j \in JoinSlots :
        \/ JoinStart(j)
        \/ JoinGet(j)
        \/ JoinTtl(j)
        \/ JoinSet(j)

\* ------------------------------------------------- POST /api/pair/unlink
UnlinkSlots == {"u1", "u2"}

UnlinkIdle ==
    [pc |-> "idle", senderDeviceId |-> "", receiverDeviceId |-> "",
     hadPair |-> FALSE, given |-> FALSE, changed |-> FALSE, before |-> <<>>,
     raced |-> FALSE, severed |-> FALSE,
     resp |-> NoResponse]

UnlinkDone(h, resp) ==
    [UnlinkIdle EXCEPT !.pc = "done", !.senderDeviceId = h.senderDeviceId,
                       !.receiverDeviceId = h.receiverDeviceId,
                       !.hadPair = h.hadPair, !.given = h.given,
                       !.changed = h.changed, !.before = h.before,
                       !.raced = h.raced, !.severed = h.severed, !.resp = resp]

UnlinkMissing(h) == Failure(404)
UnlinkOk(h) ==
    [status |-> 200, ok |-> TRUE, senderDeviceId |-> h.senderDeviceId,
     receiverDeviceId |-> h.receiverDeviceId]

\* resolveReceiverDeviceId: the receiver a stored record names, "" for none.
resolveReceiverDeviceId(raw) ==
    IF Live(raw) THEN normalizeDeviceId(raw.receiverDeviceId) ELSE ""

UnlinkStart(u) ==
    /\ un[u].pc \in {"idle", "done"}
    /\ Spend("unlink")
    /\ \E rawSender \in inp.unlinkSenders, rawReceiver \in inp.unlinkReceivers :
        LET senderDeviceId == normalizeDeviceId(rawSender)
            \* (ghost) the sender has a pairing as the request arrives, the
            \* body names a receiver, whom each device is paired with then
            h == [UnlinkIdle EXCEPT
                    !.senderDeviceId = senderDeviceId,
                    !.receiverDeviceId = normalizeDeviceId(rawReceiver),
                    !.hadPair = senderDeviceId # "" /\ Live(senderPairs[senderDeviceId]),
                    !.given = normalizeDeviceId(rawReceiver) # "",
                    !.before = [d \in ValidDeviceIds |->
                                   resolveReceiverDeviceId(senderPairs[d])]]
        IN  un' = [un EXCEPT ![u] =
                IF senderDeviceId = "" THEN UnlinkDone(h, Failure(400))
                ELSE IF h.receiverDeviceId = "" THEN [h EXCEPT !.pc = "get"]
                ELSE [h EXCEPT !.pc = "del"]]
    /\ UNCHANGED <<store, fe, sh, pcr, cf, ak, po, rc, rj, ps, inp, ticksLeft,
                   nextMsg, ghost>>

\* No receiver in the body: redis.get of the sender's pairing names it.
UnlinkGet(u) ==
    /\ un[u].pc = "get"
    /\ un' = [un EXCEPT ![u].pc = "del",
                        ![u].receiverDeviceId =
                            resolveReceiverDeviceId(senderPairs[un[u].senderDeviceId])]
    /\ UNCHANGED <<store, fe, sh, pcr, cf, ak, po, rc, rj, ps, inp, budget,
                   ticksLeft, nextMsg, ghost>>

\* redis.del(senderKey)
UnlinkDel(u) ==
    /\ un[u].pc = "del"
    /\ senderPairs' = [senderPairs EXCEPT ![un[u].senderDeviceId] = NoPair]
    /\ LET \* (ghost) the deletion removed a live record
           h == [un[u] EXCEPT !.changed = @ \/ Live(senderPairs[un[u].senderDeviceId])]
       IN  IF h.receiverDeviceId # ""
           THEN /\ un' = [un EXCEPT ![u] = [h EXCEPT !.pc = "get_reverse"]]
                /\ UNCHANGED unlinked
           ELSE /\ un' = [un EXCEPT ![u] = UnlinkDone(h, UnlinkOk(h))]
                /\ unlinked' = unlinked \cup {h.senderDeviceId}
    /\ UNCHANGED <<clips, rl, pairCodes, rooms, nearby, fe, sh, pcr, cf, ak, po, rc,
                   rj, ps, inp, budget, ticksLeft, nextMsg, served, seen, calls,
                   winAge, armAge, linked>>

\* if (!reverseTarget || reverseTarget === senderDeviceId)
ClearsReverseNever(reverseTarget, senderDeviceId) == FALSE
ClearsReverseAlways(reverseTarget, senderDeviceId) == TRUE
ClearsReverse(reverseTarget, senderDeviceId) ==
    reverseTarget = "" \/ reverseTarget = senderDeviceId

\* redis.get of the receiver's own pairing.
UnlinkGetReverse(u) ==
    /\ un[u].pc = "get_reverse"
    /\ LET reverseTarget == resolveReceiverDeviceId(senderPairs[un[u].receiverDeviceId])
       IN  IF ClearsReverse(reverseTarget, un[u].senderDeviceId)
           THEN /\ un' = [un EXCEPT ![u].pc = "del_reverse"]
                /\ UNCHANGED unlinked
           ELSE /\ un' = [un EXCEPT ![u] = UnlinkDone(@, UnlinkOk(@))]
                /\ unlinked' = unlinked \cup {un[u].senderDeviceId}
    /\ UNCHANGED <<store, fe, sh, pcr, cf, ak, po, rc, rj, ps, inp, budget,
                   ticksLeft, nextMsg, served, seen, calls, winAge, armAge, linked>>

\* redis.del(receiverKey)
UnlinkDelReverse(u) ==
    /\ un[u].pc = "del_reverse"
    /\ senderPairs' = [senderPairs EXCEPT ![un[u].receiverDeviceId] = NoPair]
    /\ LET reverse == senderPairs[un[u].receiverDeviceId]
           \* (ghost) severed: the record deleted named another device
           h == [un[u] EXCEPT
                   !.changed = un[u].changed \/ Live(reverse),
                   !.severed = resolveReceiverDeviceId(reverse)
                                   \notin {"", un[u].senderDeviceId}]
       IN  un' = [un EXCEPT ![u] = UnlinkDone(h, UnlinkOk(h))]
    /\ unlinked' = unlinked \cup {un[u].senderDeviceId}
    /\ UNCHANGED <<clips, rl, pairCodes, rooms, nearby, fe, sh, pcr, cf, ak, po, rc,
                   rj, ps, inp, budget, ticksLeft, nextMsg, served, seen, calls,
                   winAge, armAge, linked>>

Unlink ==
    \E u \in UnlinkSlots :
        \/ UnlinkStart(u)
        \/ UnlinkGet(u)
        \/ UnlinkDel(u)
        \/ UnlinkGetReverse(u)
        \/ UnlinkDelReverse(u)

\* --------------------------------------------------- GET /api/pair/status
StatusSlots == {"q1"}

StatusIdle ==
    [pc |-> "idle", deviceId |-> "", afterUnlink |-> FALSE, linkedTo |-> {},
     resp |-> NoResponse]

StatusDone(h, resp) ==
    [StatusIdle EXCEPT !.pc = "done", !.deviceId = h.deviceId,
                       !.afterUnlink = h.afterUnlink, !.linkedTo = h.linkedTo,
                       !.resp = resp]

StatusStart(q) ==
    /\ ps[q].pc \in {"idle", "done"}
    /\ Spend("status")
    /\ \E rawDevice \in inp.statusDevices :
        LET \* (ghost) linkedTo: the receivers the confirms of this device
            \* that have answered linked it to
            h == [StatusIdle EXCEPT
                    !.deviceId = normalizeDeviceId(rawDevice),
                    !.afterUnlink = normalizeDeviceId(rawDevice) \in unlinked,
                    !.linkedTo =
                        {cf[c].resp.receiverDeviceId : c \in
                            {k \in ConfirmSlots :
                                /\ cf[k].pc = "done" /\ cf[k].resp.status = 200
                                /\ cf[k].senderDeviceId = normalizeDeviceId(rawDevice)}}]
        IN  ps' = [ps EXCEPT ![q] =
                IF h.deviceId = "" THEN StatusDone(h, [status |-> 400, linked |-> FALSE])
                ELSE [h EXCEPT !.pc = "get"]]
    /\ UNCHANGED <<store, fe, sh, pcr, cf, ak, po, rc, rj, un, inp, ticksLeft,
                   nextMsg, ghost>>

\* redis.get of the device's pairing, resolvePairPayload, the response.
StatusGet(q) ==
    /\ ps[q].pc = "get"
    /\ LET receiverDeviceId == resolveReceiverDeviceId(senderPairs[ps[q].deviceId])
       IN  ps' = [ps EXCEPT ![q] =
               StatusDone(@, [status |-> 200, linked |-> receiverDeviceId # "",
                              receiverDeviceId |-> receiverDeviceId])]
    /\ UNCHANGED <<store, fe, sh, pcr, cf, ak, po, rc, rj, un, inp, budget,
                   ticksLeft, nextMsg, ghost>>

Status ==
    \E q \in StatusSlots :
        \/ StatusStart(q)
        \/ StatusGet(q)

\* ------------------------------------------------------------ specifications
EmptyStore ==
    /\ clips = [c \in Codes |-> NoClip]
    /\ rl = [k \in RlKeys |-> NoCount]
    /\ pairCodes = [c \in PairCodes |-> NoPair]
    /\ senderPairs = [d \in ValidDeviceIds |-> NoPair]
    /\ rooms = [c \in RoomCodes |-> NoRoom]
    /\ nearby = [d \in ValidDeviceIds |-> NoMail]

IdleHandlers ==
    /\ fe = [f \in FetchSlots |-> FetchIdle]
    /\ sh = [s \in ShareSlots |-> ShareIdle]
    /\ pcr = [p \in PairSlots |-> PairIdle]
    /\ cf = [c \in ConfirmSlots |-> ConfirmIdle]
    /\ ak = [a \in AckSlots |-> AckIdle]
    /\ po = [p \in PollSlots |-> PollIdle]
    /\ rc = [r \in RoomSlots |-> RoomIdle]
    /\ rj = [j \in JoinSlots |-> JoinIdle]
    /\ un = [u \in UnlinkSlots |-> UnlinkIdle]
    /\ ps = [q \in StatusSlots |-> StatusIdle]

FreshGhost ==
    /\ nextMsg = 0
    /\ served = [c \in Codes |-> 0]
    /\ seen = [c \in Codes |-> FALSE]
    /\ calls = [k \in RlKeys |-> 0]
    /\ winAge = [k \in RlKeys |-> -1]
    /\ armAge = [k \in RlKeys |-> -1]
    /\ linked = [c \in PairCodes |-> 0]
    /\ unlinked = {}

NoInput ==
    [bodies |-> {}, codes |-> {}, fetchCodes |-> {}, receivers |-> {},
     pairCandidates |-> {}, pairCodes |-> {}, senders |-> {},
     ackReceivers |-> {}, messageIds |-> {}, pollReceivers |-> {},
     hosts |-> {}, roomCandidates |-> {}, joiners |-> {}, joinCodes |-> {},
     faults |-> FALSE, audit |-> FALSE, unlinkSenders |-> {}, unlinkReceivers |-> {},
     statusDevices |-> {}]

NoBudget == [k \in Kinds |-> 0]

LinksOnly == [NoBody EXCEPT !.links = <<"", " https://a.example ">>, !.ttlSeconds = 180]
TextOnly == [NoBody EXCEPT !.text = " memo ", !.ttlSeconds = 7]
LinksAndText ==
    [NoBody EXCEPT !.links = <<"https://a.example", "http://b.example">>,
                   !.text = "memo", !.ttlSeconds = 180]

\* Share and Fetch from an empty store, callers that name no sender device.
Init ==
    /\ EmptyStore
    /\ IdleHandlers
    /\ FreshGhost
    /\ inp = [NoInput EXCEPT !.bodies = {LinksOnly, TextOnly, LinksAndText},
                             !.codes = Codes, !.fetchCodes = {"482", " 482 "}]
    /\ budget = [NoBudget EXCEPT !["share"] = MaxWrites, !["fetch"] = MaxRequests]
    /\ ticksLeft = MaxTicks

Next == ShareClip \/ Fetch \/ Tick

Spec == Init /\ [][Next]_vars

\* Fetch alone: a stored clip, and a caller one call short of the limit half
\* way through its window.
InitFetch ==
    /\ clips = [c \in Codes |->
                 IF c = "482"
                 THEN [links |-> <<"https://a.example">>, text |-> "memo",
                       ttl |-> DEFAULT_TTL_SECONDS]
                 ELSE NoClip]
    /\ rl = [k \in RlKeys |->
              IF k[1] = "fetch" THEN [count |-> FETCH_LIMIT - 1, ttl |-> 30]
              ELSE NoCount]
    /\ pairCodes = [c \in PairCodes |-> NoPair]
    /\ senderPairs = [d \in ValidDeviceIds |-> NoPair]
    /\ rooms = [c \in RoomCodes |-> NoRoom]
    /\ nearby = [d \in ValidDeviceIds |-> NoMail]
    /\ IdleHandlers
    /\ nextMsg = 0
    /\ served = [c \in Codes |-> 0]
    /\ seen = [c \in Codes |-> FALSE]
    /\ calls = [k \in RlKeys |-> IF k[1] = "fetch" THEN FETCH_LIMIT - 1 ELSE 0]
    /\ winAge = [k \in RlKeys |-> IF k[1] = "fetch" THEN 30 ELSE -1]
    /\ armAge = [k \in RlKeys |-> IF k[1] = "fetch" THEN 30 ELSE -1]
    /\ linked = [c \in PairCodes |-> 0]
    /\ unlinked = {}
    /\ inp = [NoInput EXCEPT !.fetchCodes = {"482", " 482 ", "", "1234567890123"}]
    /\ budget = [NoBudget EXCEPT !["fetch"] = MaxRequests + 1]
    /\ ticksLeft = MaxTicks

NextFetch == Fetch \/ Tick

SpecFetch == InitFetch /\ [][NextFetch]_vars

\* Share alone, from an empty store: concurrent handlers minting codes.
InitMint ==
    /\ EmptyStore
    /\ IdleHandlers
    /\ FreshGhost
    /\ inp = [NoInput EXCEPT !.bodies = {TextOnly}, !.codes = Codes]
    /\ budget = [NoBudget EXCEPT !["share"] = MaxRequests]
    /\ ticksLeft = MaxTicks

NextMint == ShareClip \/ Tick

SpecMint == InitMint /\ [][NextMint]_vars

\* One caller against the Share limiter, with bodies that fail validation.
InitRate ==
    /\ EmptyStore
    /\ IdleHandlers
    /\ FreshGhost
    /\ inp = [NoInput EXCEPT !.bodies = {NoBody}]
    /\ budget = [NoBudget EXCEPT !["share"] = -1]
    /\ ticksLeft = MaxTicks + 1

NextRate == ShareAdmit \/ Tick

SpecRate == InitRate /\ [][NextRate]_vars

\* Pairing from an empty store: one receiver issues codes, senders confirm.
InitPair ==
    /\ EmptyStore
    /\ IdleHandlers
    /\ FreshGhost
    /\ inp = [NoInput EXCEPT !.receivers = {DeviceR, "bad id"},
                             !.pairCandidates = PairCodes,
                             !.pairCodes = {"a7f3kq", "ZZZZZZ", " - "},
                             !.senders = {DeviceS, DeviceT}]
    /\ budget = [NoBudget EXCEPT !["create"] = MaxWrites, !["confirm"] = MaxRequests]
    /\ ticksLeft = MaxTicks

NextPair == PairCreate \/ Confirm \/ Tick

SpecPair == InitPair /\ [][NextPair]_vars

\* Acknowledgements against the mailbox a Share left for a paired receiver.
\* S is paired with R, and a Share of S has left one message for R.
OneMessage ==
    /\ clips = [c \in Codes |->
                 IF c = "482"
                 THEN [links |-> <<"https://a.example">>, text |-> "memo",
                       ttl |-> DEFAULT_TTL_SECONDS]
                 ELSE NoClip]
    /\ rl = [k \in RlKeys |-> IF k[1] = "share" THEN [count |-> 1, ttl |-> 60] ELSE NoCount]
    /\ pairCodes = [c \in PairCodes |-> NoPair]
    /\ senderPairs = [d \in ValidDeviceIds |->
                       IF d = DeviceS
                       THEN [receiverDeviceId |-> DeviceR, ttl |-> PAIRING_TTL_SECONDS]
                       ELSE NoPair]
    /\ rooms = [c \in RoomCodes |-> NoRoom]
    /\ nearby = [d \in ValidDeviceIds |->
                  IF d = DeviceR
                  THEN [queue |-> FALSE,
                        items |-> <<[messageId |-> createMessageId(1), code |-> "482",
                                     links |-> <<"https://a.example">>, text |-> "memo"]>>,
                        ttl |-> DEFAULT_TTL_SECONDS]
                  ELSE NoMail]
    /\ IdleHandlers
    /\ nextMsg = 1
    /\ served = [c \in Codes |-> 0]
    /\ seen = [c \in Codes |-> FALSE]
    /\ calls = [k \in RlKeys |-> IF k[1] = "share" THEN 1 ELSE 0]
    /\ winAge = [k \in RlKeys |-> IF k[1] = "share" THEN 0 ELSE -1]
    /\ armAge = [k \in RlKeys |-> IF k[1] = "share" THEN 0 ELSE -1]
    /\ linked = [c \in PairCodes |-> 0]
    /\ unlinked = {}

InitNearby ==
    /\ OneMessage
    /\ inp = [NoInput EXCEPT !.ackReceivers = {DeviceR, DeviceT, "bad id"},
                             !.messageIds = {"msg-0001", " msg-0001 ", "msg-0002", "short"}]
    /\ budget = [NoBudget EXCEPT !["ack"] = MaxRequests + 1]
    /\ ticksLeft = MaxTicks

NextNearby == Ack \/ Tick

SpecNearby == InitNearby /\ [][NextNearby]_vars

\* R polls its mailbox, any number of times at once, and acknowledges.
InitPoll ==
    /\ OneMessage
    /\ inp = [NoInput EXCEPT !.ackReceivers = {DeviceR}, !.messageIds = {"msg-0001"},
                             !.pollReceivers = {DeviceR, DeviceT, "bad id"}]
    /\ budget = [NoBudget EXCEPT !["ack"] = MaxWrites, !["poll"] = MaxRequests + 1]
    /\ ticksLeft = MaxTicks

NextPoll == Poll \/ Ack \/ Tick

SpecPoll == InitPoll /\ [][NextPoll]_vars

\* R opens a room; T joins it, again and again, also twice at once.
InitRoom ==
    /\ EmptyStore
    /\ IdleHandlers
    /\ FreshGhost
    /\ inp = [NoInput EXCEPT !.hosts = {DeviceR, "bad id"}, !.roomCandidates = RoomCodes,
                             !.joiners = {DeviceT, "bad id"},
                             !.joinCodes = {"123-456", "lobby"}]
    /\ budget = [NoBudget EXCEPT !["room"] = MaxWrites, !["join"] = MaxRequests + 1]
    /\ ticksLeft = MaxTicks

NextRoom == RoomCreate \/ Join \/ Tick

SpecRoom == InitRoom /\ [][NextRoom]_vars

\* R and S open rooms, one after the other, and T joins them, also twice at
\* once, while the rooms age.
InitHost ==
    /\ EmptyStore
    /\ IdleHandlers
    /\ FreshGhost
    /\ inp = [NoInput EXCEPT !.hosts = {DeviceR, DeviceS}, !.roomCandidates = RoomCodes,
                             !.joiners = {DeviceT},
                             !.joinCodes = {"123-456"}]
    /\ budget = [NoBudget EXCEPT !["room"] = MaxRequests, !["join"] = MaxRequests]
    /\ ticksLeft = MaxWrites

NextHost == RoomCreate \/ Join \/ Tick

SpecHost == InitHost /\ [][NextHost]_vars

\* R has opened room 123456; T and S join it, also at once, and no key
\* expires.
InitJoin ==
    /\ clips = [c \in Codes |-> NoClip]
    /\ rl = [k \in RlKeys |-> NoCount]
    /\ pairCodes = [c \in PairCodes |-> NoPair]
    /\ senderPairs = [d \in ValidDeviceIds |-> NoPair]
    /\ rooms = [c \in RoomCodes |->
                 [hostDeviceId |-> DeviceR, members |-> <<DeviceR>>,
                  ttl |-> ROOM_TTL_SECONDS]]
    /\ nearby = [d \in ValidDeviceIds |-> NoMail]
    /\ IdleHandlers
    /\ FreshGhost
    /\ inp = [NoInput EXCEPT !.joiners = {DeviceT, DeviceS},
                             !.joinCodes = {"123-456", "lobby"}]
    /\ budget = [NoBudget EXCEPT !["join"] = MaxRequests]
    /\ ticksLeft = 0

NextJoin == Join

SpecJoin == InitJoin /\ [][NextJoin]_vars

FromS == [TextOnly EXCEPT !.senderDeviceId = DeviceS]

\* S is paired with R, and T has opened room 123456, which S and R joined.
\* One Share at a time, from S, from T or without a sender, with or without
\* the room code; no key expires.
FanoutBodies ==
    {[LinksAndText EXCEPT !.senderDeviceId = d, !.roomCode = r] :
        d \in {"", DeviceS, DeviceT}, r \in {"", "123-456"}}

InitFanout ==
    /\ clips = [c \in Codes |-> NoClip]
    /\ rl = [k \in RlKeys |-> NoCount]
    /\ pairCodes = [c \in PairCodes |-> NoPair]
    /\ senderPairs = [d \in ValidDeviceIds |->
                       IF d = DeviceS
                       THEN [receiverDeviceId |-> DeviceR, ttl |-> PAIRING_TTL_SECONDS]
                       ELSE NoPair]
    /\ rooms = [c \in RoomCodes |->
                 [hostDeviceId |-> DeviceT, members |-> <<DeviceT, DeviceS, DeviceR>>,
                  ttl |-> ROOM_TTL_SECONDS]]
    /\ nearby = [d \in ValidDeviceIds |-> NoMail]
    /\ IdleHandlers
    /\ FreshGhost
    /\ inp = [NoInput EXCEPT !.bodies = FanoutBodies, !.codes = Codes]
    /\ budget = [NoBudget EXCEPT !["share"] = MaxRequests]
    /\ ticksLeft = 0

NextFanout ==
    \/ (\A s \in ShareSlots : sh[s].pc \in {"idle", "done"}) /\ ShareStart("s1")
    \/ \E s \in ShareSlots :
        \/ ShareRlExpire(s) \/ ShareRlTtl(s) \/ ShareExists(s) \/ ShareSetClip(s)
        \/ ShareGetPair(s) \/ ShareExpirePair(s) \/ ShareGetRoom(s) \/ SharePublish(s)

SpecFanout == InitFanout /\ [][NextFanout]_vars

TooManyLinks ==
    [FromS EXCEPT !.links = [n \in 1..(MAX_LINKS + 1) |-> "https://a.example"]]
LongLink == [FromS EXCEPT !.links = <<"https://long.example">>]
FtpLink == [FromS EXCEPT !.links = <<"https://a.example", "ftp://x">>]
NoContent == [FromS EXCEPT !.links = <<"", " ">>, !.text = " "]
LongText == [FromS EXCEPT !.text = "essay"]

\* S, paired with R, sends bodies that break one validation rule each.
InitValid ==
    /\ clips = [c \in Codes |-> NoClip]
    /\ rl = [k \in RlKeys |-> NoCount]
    /\ pairCodes = [c \in PairCodes |-> NoPair]
    /\ senderPairs = [d \in ValidDeviceIds |->
                       IF d = DeviceS
                       THEN [receiverDeviceId |-> DeviceR, ttl |-> PAIRING_TTL_SECONDS]
                       ELSE NoPair]
    /\ rooms = [c \in RoomCodes |-> NoRoom]
    /\ nearby = [d \in ValidDeviceIds |-> NoMail]
    /\ IdleHandlers
    /\ FreshGhost
    /\ inp = [NoInput EXCEPT
                !.bodies = {TooManyLinks, LongLink, FtpLink, NoContent, LongText}]
    /\ budget = [NoBudget EXCEPT !["share"] = MaxRequests + 1]
    /\ ticksLeft = MaxTicks

NextValid == ShareAdmit \/ Tick

SpecValid == InitValid /\ [][NextValid]_vars

\* No request is being handled.
Quiet ==
    /\ \A f \in FetchSlots : fe[f].pc \in {"idle", "done"}
    /\ \A s \in ShareSlots : sh[s].pc \in {"idle", "done"}
    /\ \A p \in PairSlots : pcr[p].pc \in {"idle", "done"}
    /\ \A c \in ConfirmSlots : cf[c].pc \in {"idle", "done"}
    /\ \A a \in AckSlots : ak[a].pc \in {"idle", "done"}
    /\ \A p \in PollSlots : po[p].pc \in {"idle", "done"}
    /\ \A r \in RoomSlots : rc[r].pc \in {"idle", "done"}
    /\ \A j \in JoinSlots : rj[j].pc \in {"idle", "done"}
    /\ \A u \in UnlinkSlots : un[u].pc \in {"idle", "done"}
    /\ \A q \in StatusSlots : ps[q].pc \in {"idle", "done"}

\* Bodies of every kind of sender, with and without a room code.
ReasonBodies ==
    {[TextOnly EXCEPT !.senderDeviceId = d, !.roomCode = r] :
        d \in {"", "bad id", DeviceS, DeviceT, DeviceR},
        r \in {"", "123-456", "654321"}}

\* S is paired with R, and R has opened room 123456.
PairedAndRoom ==
    /\ clips = [c \in Codes |-> NoClip]
    /\ rl = [k \in RlKeys |-> NoCount]
    /\ pairCodes = [c \in PairCodes |-> NoPair]
    /\ senderPairs = [d \in ValidDeviceIds |->
                       IF d = DeviceS
                       THEN [receiverDeviceId |-> DeviceR, ttl |-> PAIRING_TTL_SECONDS]
                       ELSE NoPair]
    /\ rooms = [c \in RoomCodes |->
                 [hostDeviceId |-> DeviceR, members |-> <<DeviceR>>,
                  ttl |-> ROOM_TTL_SECONDS]]
    /\ nearby = [d \in ValidDeviceIds |-> NoMail]
    /\ IdleHandlers
    /\ FreshGhost

InitReason ==
    /\ PairedAndRoom
    /\ inp = [NoInput EXCEPT !.bodies = ReasonBodies, !.codes = {"482"}]
    /\ budget = [NoBudget EXCEPT !["share"] = MaxWrites]
    /\ ticksLeft = MaxTicks

\* One Share at a time, each step of it, and time.
ReasonRequest == Quiet /\ ShareStart("s1")

ReasonStep ==
    \E s \in ShareSlots :
        \/ ShareRlExpire(s) \/ ShareRlTtl(s) \/ ShareExists(s) \/ ShareSetClip(s)
        \/ ShareGetPair(s) \/ ShareExpirePair(s) \/ ShareGetRoom(s) \/ SharePublish(s)

NextReason == ReasonRequest \/ ReasonStep \/ Tick

SpecReason == InitReason /\ [][NextReason]_vars

\* The same, with a store that may fail any call of the Share.
InitFault ==
    /\ PairedAndRoom
    /\ inp = [NoInput EXCEPT !.bodies = {[FromS EXCEPT !.roomCode = "123-456"]},
                             !.codes = {"482"}, !.faults = TRUE]
    /\ budget = [NoBudget EXCEPT !["share"] = MaxWrites]
    /\ ticksLeft = MaxTicks

NextFault == ShareClip \/ ShareNearby \/ (\E s \in ShareSlots : ShareStoreFails(s)) \/ Tick

SpecFault == InitFault /\ [][NextFault]_vars

\* R and S pair, S shares, R polls and acknowledges: one request at a time,
\* from an empty store, all within the lifetime of every key.
InitRelay ==
    /\ EmptyStore
    /\ IdleHandlers
    /\ FreshGhost
    /\ inp = [NoInput EXCEPT !.receivers = {DeviceR}, !.pairCandidates = {"A7F3KQ"},
                             !.pairCodes = {"a7f3kq"}, !.senders = {DeviceS},
                             !.bodies = {FromS}, !.codes = Codes,
                             !.pollReceivers = {DeviceR}, !.ackReceivers = {DeviceR},
                             !.messageIds = {"msg-0001", "msg-0002"}]
    /\ budget = [NoBudget EXCEPT !["create"] = MaxWrites, !["confirm"] = MaxWrites,
                                 !["share"] = MaxRequests, !["poll"] = MaxRequests,
                                 !["ack"] = MaxWrites]
    /\ ticksLeft = 0

\* A client sends a request once the answer to the last one is in.
RelayRequest ==
    /\ Quiet
    /\ \/ PairStart("p1")
       \/ ConfirmStart("c1")
       \/ ShareStart("s1")
       \/ \E p \in PollSlots : PollStart(p)
       \/ AckStart("a1")

RelayStep ==
    \/ \E p \in PairSlots : PairExists(p) \/ PairSet(p)
    \/ \E c \in ConfirmSlots : ConfirmGet(c) \/ ConfirmSet(c) \/ ConfirmDel(c)
    \/ \E s \in ShareSlots :
        \/ ShareRlExpire(s) \/ ShareRlTtl(s) \/ ShareExists(s) \/ ShareSetClip(s)
        \/ ShareGetPair(s) \/ ShareExpirePair(s) \/ SharePublish(s)
    \/ \E p \in PollSlots : PollGet(p)
    \/ \E a \in AckSlots : AckGet(a) \/ AckDel(a)

NextRelay == RelayRequest \/ RelayStep

SpecRelay == InitRelay /\ [][NextRelay]_vars

\* Items of a mailbox: two with the id msg-0001, one with msg-0002, and two
\* without a usable id.
FirstItem ==
    [messageId |-> "msg-0001", code |-> "482", links |-> <<"https://a.example">>,
     text |-> "memo"]
FirstAgain == [FirstItem EXCEPT !.code = "7731", !.text = ""]
SecondItem == [FirstItem EXCEPT !.messageId = "msg-0002", !.code = "7731"]
LegacyItem == [FirstItem EXCEPT !.messageId = ""]
ShortIdItem == [SecondItem EXCEPT !.messageId = "short"]

\* What the key of a mailbox may hold: a queue {version: 2, items}, or one
\* item as Share stores it, with a message id or (before ids) without one.
StoredMailboxes ==
    {[queue |-> TRUE, items |-> q, ttl |-> DEFAULT_TTL_SECONDS] :
        q \in {<<FirstItem, SecondItem, FirstAgain>>, <<FirstItem, FirstAgain>>,
               <<LegacyItem, SecondItem>>, <<ShortIdItem, LegacyItem>>}}
    \cup {[queue |-> FALSE, items |-> <<i>>, ttl |-> DEFAULT_TTL_SECONDS] :
            i \in {FirstItem, LegacyItem}}

\* R polls and acknowledges a mailbox of any of these shapes, one request at
\* a time, while time passes.
InitQueue ==
    /\ clips = [c \in Codes |-> NoClip]
    /\ rl = [k \in RlKeys |-> NoCount]
    /\ pairCodes = [c \in PairCodes |-> NoPair]
    /\ senderPairs = [d \in ValidDeviceIds |-> NoPair]
    /\ rooms = [c \in RoomCodes |-> NoRoom]
    /\ \E mailbox \in StoredMailboxes :
        nearby = [d \in ValidDeviceIds |-> IF d = DeviceR THEN mailbox ELSE NoMail]
    /\ IdleHandlers
    /\ FreshGhost
    /\ inp = [NoInput EXCEPT !.ackReceivers = {DeviceR},
                             !.messageIds = {"msg-0001", "msg-0002"},
                             !.pollReceivers = {DeviceR}]
    /\ budget = [NoBudget EXCEPT !["ack"] = MaxRequests, !["poll"] = MaxRequests]
    /\ ticksLeft = MaxTicks

QueueRequest == Quiet /\ (AckStart("a1") \/ PollStart("o1"))

QueueStep ==
    \/ AckGet("a1") \/ AckDel("a1") \/ AckTtl("a1") \/ AckSet("a1")
    \/ PollGet("o1") \/ PollDel("o1") \/ PollTtl("o1") \/ PollSet("o1")

NextQueue == QueueRequest \/ QueueStep \/ Tick

SpecQueue == InitQueue /\ [][NextQueue]_vars

\* R creates a pairing code; S and T confirm it, also at once, and S asks for
\* its status. All within the lifetime of every key.
InitLink ==
    /\ EmptyStore
    /\ IdleHandlers
    /\ FreshGhost
    /\ inp = [NoInput EXCEPT !.receivers = {DeviceR}, !.pairCandidates = {"A7F3KQ"},
                             !.pairCodes = {"a7f3kq", "ZZZZZZ"},
                             !.senders = {DeviceS, DeviceT},
                             !.statusDevices = {DeviceS}]
    /\ budget = [NoBudget EXCEPT !["create"] = MaxWrites, !["confirm"] = MaxRequests,
                                 !["status"] = MaxRequests]
    /\ ticksLeft = 0

NextLink == PairCreate \/ Confirm \/ Status

SpecLink == InitLink /\ [][NextLink]_vars

\* S is paired with R, whose mailbox holds msg-0001 alone or ahead of
\* msg-0002. S shares while R acknowledges msg-0001; R polls once no request
\* is being handled. All within the lifetime of every key.
InitRace ==
    /\ clips = [c \in Codes |-> NoClip]
    /\ rl = [k \in RlKeys |-> NoCount]
    /\ pairCodes = [c \in PairCodes |-> NoPair]
    /\ senderPairs = [d \in ValidDeviceIds |->
                       IF d = DeviceS
                       THEN [receiverDeviceId |-> DeviceR, ttl |-> PAIRING_TTL_SECONDS]
                       ELSE NoPair]
    /\ rooms = [c \in RoomCodes |-> NoRoom]
    /\ \E mailbox \in
            {[queue |-> FALSE, items |-> <<FirstItem>>, ttl |-> DEFAULT_TTL_SECONDS],
             [queue |-> TRUE, items |-> <<FirstItem, SecondItem>>,
              ttl |-> DEFAULT_TTL_SECONDS]} :
        nearby = [d \in ValidDeviceIds |-> IF d = DeviceR THEN mailbox ELSE NoMail]
    /\ IdleHandlers
    /\ nextMsg = 2
    /\ served = [c \in Codes |-> 0]
    /\ seen = [c \in Codes |-> FALSE]
    /\ calls = [k \in RlKeys |-> 0]
    /\ winAge = [k \in RlKeys |-> -1]
    /\ armAge = [k \in RlKeys |-> -1]
    /\ linked = [c \in PairCodes |-> 0]
    /\ unlinked = {}
    /\ inp = [NoInput EXCEPT !.bodies = {FromS}, !.codes = {"7731"},
                             !.ackReceivers = {DeviceR}, !.messageIds = {"msg-0001"},
                             !.pollReceivers = {DeviceR}]
    /\ budget = [NoBudget EXCEPT !["share"] = MaxWrites, !["ack"] = MaxWrites,
                                 !["poll"] = MaxRequests]
    /\ ticksLeft = 0

\* Each acknowledgement is handled in a slot of its own.
RaceRequest ==
    \/ ShareStart("s1")
    \/ \E a \in AckSlots : ak[a].pc = "idle" /\ AckStart(a)
    \/ Quiet /\ PollStart("o1")

RaceStep ==
    \/ \E s \in ShareSlots :
        \/ ShareRlExpire(s) \/ ShareRlTtl(s) \/ ShareExists(s) \/ ShareSetClip(s)
        \/ ShareGetPair(s) \/ ShareExpirePair(s) \/ SharePublish(s)
    \/ \E a \in AckSlots : AckGet(a) \/ AckDel(a) \/ AckTtl(a) \/ AckSet(a)
    \/ PollGet("o1")

NextRace == RaceRequest \/ RaceStep

SpecRace == InitRace /\ [][NextRace]_vars

\* S and R are paired, and R is paired either back with S or with T; they
\* unlink, ask for their status and share, all within the lifetime of every
\* key. T has no pairing.
PairedWith(peerOfR) ==
    [d \in ValidDeviceIds |->
        IF d = DeviceS THEN [receiverDeviceId |-> DeviceR, ttl |-> PAIRING_TTL_SECONDS]
        ELSE IF d = DeviceR THEN [receiverDeviceId |-> peerOfR, ttl |-> PAIRING_TTL_SECONDS]
        ELSE NoPair]

InitUnlink ==
    /\ clips = [c \in Codes |-> NoClip]
    /\ rl = [k \in RlKeys |-> NoCount]
    /\ pairCodes = [c \in PairCodes |-> NoPair]
    /\ senderPairs \in {PairedWith(DeviceS), PairedWith(DeviceT)}
    /\ rooms = [c \in RoomCodes |-> NoRoom]
    /\ nearby = [d \in ValidDeviceIds |-> NoMail]
    /\ IdleHandlers
    /\ FreshGhost
    /\ inp = [NoInput EXCEPT !.unlinkSenders = {DeviceS, DeviceT},
                             !.unlinkReceivers = {"", DeviceR},
                             !.statusDevices = {DeviceS},
                             !.bodies = {FromS}, !.codes = {"482"}]
    /\ budget = [NoBudget EXCEPT !["unlink"] = MaxRequests, !["status"] = MaxWrites,
                                 !["share"] = MaxWrites]
    /\ ticksLeft = 0

\* Unlinks run concurrently; a status request or a Share is sent while no
\* request is being handled.
UnlinkReader ==
    /\ Quiet
    /\ StatusStart("q1") \/ ShareStart("s1")

NextUnlink ==
    \/ Unlink
    \/ UnlinkReader
    \/ StatusGet("q1")
    \/ \E s \in ShareSlots :
        \/ ShareRlExpire(s) \/ ShareRlTtl(s) \/ ShareExists(s)
        \/ ShareSetClip(s) \/ ShareGetPair(s) \/ ShareExpirePair(s) \/ SharePublish(s)

SpecUnlink == InitUnlink /\ [][NextUnlink]_vars

\* S is paired with R, and R either back with S or with T; a pairing code of
\* T is waiting. S unlinks while R confirms that code, with no key expiring.
InitSever ==
    /\ clips = [c \in Codes |-> NoClip]
    /\ rl = [k \in RlKeys |-> NoCount]
    /\ pairCodes = [c \in PairCodes |->
                     IF c = "A7F3KQ"
                     THEN [receiverDeviceId |-> DeviceT, ttl |-> PAIR_CODE_TTL_SECONDS]
                     ELSE NoPair]
    /\ senderPairs \in {PairedWith(DeviceS), PairedWith(DeviceT)}
    /\ rooms = [c \in RoomCodes |-> NoRoom]
    /\ nearby = [d \in ValidDeviceIds |-> NoMail]
    /\ IdleHandlers
    /\ FreshGhost
    /\ inp = [NoInput EXCEPT !.unlinkSenders = {DeviceS},
                             !.unlinkReceivers = {"", DeviceR},
                             !.pairCodes = {"a7f3kq"}, !.senders = {DeviceR}]
    /\ budget = [NoBudget EXCEPT !["unlink"] = MaxRequests, !["confirm"] = MaxRequests]
    /\ ticksLeft = 0

NextSever == Unlink \/ Confirm

SpecSever == InitSever /\ [][NextSever]_vars

\* Every code the generators draw is taken, or all but 7731, B2M9XZ and
\* 123456. S, paired with R, shares; R asks for a pairing code and opens a
\* room; one request at a time, and no key expires.
TakenClips(free) ==
    [c \in Codes |-> IF c \in free THEN NoClip
                     ELSE [links |-> <<>>, text |-> "memo", ttl |-> 180]]
TakenPairCodes(free) ==
    [c \in PairCodes |-> IF c \in free THEN NoPair
                         ELSE [receiverDeviceId |-> DeviceT,
                               ttl |-> PAIR_CODE_TTL_SECONDS]]
TakenRooms(free) ==
    [c \in RoomCodes |-> IF c \in free THEN NoRoom
                         ELSE [hostDeviceId |-> DeviceT, members |-> <<DeviceT>>,
                               ttl |-> ROOM_TTL_SECONDS]]

InitExhaust ==
    /\ \E free \in {{}, {"7731", "B2M9XZ", "123456"}} :
          /\ clips = TakenClips(free)
          /\ pairCodes = TakenPairCodes(free)
          /\ rooms = TakenRooms(free)
    /\ rl = [k \in RlKeys |-> NoCount]
    /\ senderPairs = [d \in ValidDeviceIds |->
                       IF d = DeviceS
                       THEN [receiverDeviceId |-> DeviceR, ttl |-> PAIRING_TTL_SECONDS]
                       ELSE NoPair]
    /\ nearby = [d \in ValidDeviceIds |-> NoMail]
    /\ IdleHandlers
    /\ FreshGhost
    /\ inp = [NoInput EXCEPT !.bodies = {FromS}, !.codes = Codes,
                             !.receivers = {DeviceR}, !.pairCandidates = PairCodes,
                             !.hosts = {DeviceR}, !.roomCandidates = RoomCodes,
                             !.audit = TRUE]
    /\ budget = [NoBudget EXCEPT !["share"] = MaxWrites, !["create"] = MaxWrites,
                                 !["room"] = MaxWrites]
    /\ ticksLeft = 0

ExhaustRequest ==
    Quiet /\ (ShareStart("s1") \/ PairStart("p1") \/ RoomStart("r1"))

ExhaustStep ==
    \/ \E s \in ShareSlots :
        \/ ShareRlExpire(s) \/ ShareRlTtl(s) \/ ShareExists(s) \/ ShareSetClip(s)
        \/ ShareGetPair(s) \/ ShareExpirePair(s) \/ SharePublish(s)
    \/ \E p \in PairSlots : PairExists(p) \/ PairSet(p)
    \/ \E r \in RoomSlots : RoomExists(r) \/ RoomSet(r)

NextExhaust == ExhaustRequest \/ ExhaustStep

SpecExhaust == InitExhaust /\ [][NextExhaust]_vars

\* The caller has used up both of its windows, which have 30 seconds left;
\* clip 482 is in the store and S is paired with R. The caller fetches 482
\* and shares, one request at a time, and time passes between requests.
InitThrottle ==
    /\ clips = [c \in Codes |->
                 IF c = "482"
                 THEN [links |-> <<"https://a.example">>, text |-> "memo",
                       ttl |-> DEFAULT_TTL_SECONDS]
                 ELSE NoClip]
    /\ rl = [k \in RlKeys |->
              [count |-> IF k[1] = "fetch" THEN FETCH_LIMIT ELSE SHARE_LIMIT,
               ttl |-> 30]]
    /\ pairCodes = [c \in PairCodes |-> NoPair]
    /\ senderPairs = [d \in ValidDeviceIds |->
                       IF d = DeviceS
                       THEN [receiverDeviceId |-> DeviceR, ttl |-> PAIRING_TTL_SECONDS]
                       ELSE NoPair]
    /\ rooms = [c \in RoomCodes |-> NoRoom]
    /\ nearby = [d \in ValidDeviceIds |-> NoMail]
    /\ IdleHandlers
    /\ nextMsg = 0
    /\ served = [c \in Codes |-> 0]
    /\ seen = [c \in Codes |-> FALSE]
    /\ calls = [k \in RlKeys |-> IF k[1] = "fetch" THEN FETCH_LIMIT ELSE SHARE_LIMIT]
    /\ winAge = [k \in RlKeys |-> 30]
    /\ armAge = [k \in RlKeys |-> 30]
    /\ linked = [c \in PairCodes |-> 0]
    /\ unlinked = {}
    /\ inp = [NoInput EXCEPT !.fetchCodes = {"482"}, !.bodies = {FromS},
                             !.codes = {"7731"}, !.audit = TRUE]
    /\ budget = [NoBudget EXCEPT !["fetch"] = MaxRequests, !["share"] = MaxRequests]
    /\ ticksLeft = MaxWrites

ThrottleRequest ==
    /\ Quiet
    /\ (\E f \in FetchSlots : FetchStart(f)) \/ ShareStart("s1") \/ Tick

ThrottleStep ==
    \/ \E f \in FetchSlots :
        FetchRlExpire(f) \/ FetchRlTtl(f) \/ FetchGet(f) \/ FetchDel(f)
    \/ \E s \in ShareSlots :
        \/ ShareRlExpire(s) \/ ShareRlTtl(s) \/ ShareExists(s) \/ ShareSetClip(s)
        \/ ShareGetPair(s) \/ ShareExpirePair(s) \/ SharePublish(s)

NextThrottle == ThrottleRequest \/ ThrottleStep

SpecThrottle == InitThrottle /\ [][NextThrottle]_vars

\* -------------------------------------------------------------- properties
\* The links a Fetch response carries (none when the field is missing).
RespLinks(resp) == IF "links" \in DOMAIN resp THEN resp.links ELSE <<>>

\* C1: the first Fetch of a shared code that reads the clip before its TTL
\* elapses answers 200 with the links and the text that were shared.
C1_RoundTrip ==
    \A f \in FetchSlots :
        (fe[f].pc = "done" /\ Live(fe[f].got) /\ ~fe[f].after) =>
            /\ fe[f].resp.status = 200
            /\ RespLinks(fe[f].resp) = fe[f].got.links
            /\ fe[f].resp.text = fe[f].got.text

\* C2 as stated: a Fetch of c started after a Fetch of c returned the payload
\* (no Share having minted c since) answers 404.
C2_LaterFetchIs404 ==
    \A f \in FetchSlots :
        (fe[f].pc = "done" /\ fe[f].after) => fe[f].resp.status = 404

\* C2 amended: such a Fetch never returns the payload again; it answers 404,
\* or 429 exactly when the rate limiter rejects the call.
C2_LaterFetchNeverPayload ==
    \A f \in FetchSlots :
        (fe[f].pc = "done" /\ fe[f].after) =>
            /\ fe[f].resp.status \in {404, 429}
            /\ fe[f].resp.status = 429 <=> fe[f].over

C2_Witness ==
    \E f, g \in FetchSlots :
        /\ fe[f].pc = "done" /\ fe[f].after /\ fe[f].resp.status = 404
        /\ fe[g].pc = "done" /\ fe[g].resp.status = 200 /\ fe[g].code = fe[f].code

\* C3: of the Fetch handlers that run for one stored clip, at most one
\* returns the payload.
C3_AtMostOnePayload ==
    \A c \in Codes : served[c] <= 1

\* C4 as stated: no Share writes its clip over a live clip.
C4_NeverOverwritesLive ==
    \A s \in ShareSlots : ~sh[s].clobbered

\* C4 amended: a Share writes over a live clip only when another Share
\* stored that code between its existence check and its write; a code found
\* live by the existence check is never written.
C4_OverwritesOnlyWhenRaced ==
    \A s \in ShareSlots : sh[s].clobbered => sh[s].raced

C4_Witness ==
    \E s \in ShareSlots :
        /\ sh[s].pc = "done" /\ sh[s].resp.status = 200
        /\ sh[s].skipped /\ ~sh[s].clobbered
        /\ \A c \in Codes : Live(clips[c])

\* The calls of rateLimitOrThrow that have returned or thrown.
Answered == {sh[s] : s \in {t \in ShareSlots : sh[t].pc = "done"}}
            \cup {[pc |-> "done", over |-> fe[f].over, winLate |-> fe[f].winLate,
                   armLate |-> fe[f].armLate, reset |-> fe[f].reset,
                   resp |-> fe[f].resp] : f \in {g \in FetchSlots : fe[g].pc = "done"}}

\* C5: a call is rejected with 429 exactly when it is past the limit-th call
\* of its window, whatever the interleaving of the callers.
C5_FixedWindowLimit ==
    \A h \in Answered : (h.resp.status = 429) <=> h.over

C5_Witness ==
    /\ \E h \in Answered : h.resp.status = 429 /\ h.over
    /\ \E h \in Answered : h.resp.status = 400 /\ ~h.over
    /\ calls[<<"share", "ip1">>] = SHARE_LIMIT + 1

\* C6 as stated: a call made more than windowSeconds after the first call of
\* its window is not rejected.
C6_PassesAfterWindow ==
    \A h \in Answered : h.winLate => h.resp.status # 429

\* C6 amended: a call made more than windowSeconds after the window's TTL was
\* armed (the first caller's expire) is not rejected; rejected calls never
\* prolong the key.
C6_PassesAfterArmedWindow ==
    /\ \A h \in Answered : h.armLate => h.resp.status # 429
    /\ \A k \in RlKeys : rl[k].ttl <= SHARE_WINDOW_SECONDS - armAge[k]
                         \/ armAge[k] < 0 \/ ~Live(rl[k])

C6_Witness ==
    /\ \E h \in Answered : h.armLate /\ h.winLate /\ h.resp.status = 400
    /\ \E h \in Answered : h.resp.status = 429

\* C7: a rejected Share or Fetch answers 429 with Retry-After equal to the
\* limiter's resetSeconds, which lies between 1 and windowSeconds.
C7_RetryAfter ==
    \A h \in Answered :
        h.resp.status = 429 =>
            /\ h.resp.retryAfter = h.reset
            /\ h.resp.retryAfterSeconds = h.reset
            /\ h.reset >= 1
            /\ h.reset <= SHARE_WINDOW_SECONDS

C7_Witness ==
    \E h, g \in Answered :
        /\ h.resp.status = 429 /\ h.reset = SHARE_WINDOW_SECONDS
        /\ g.resp.status = 429 /\ g.reset < SHARE_WINDOW_SECONDS

\* C8: a confirm that finds no live record under its pairing code answers
\* 404 and writes nothing: it never reaches the write of a SenderPairing or
\* the delete.
C8_UnknownCodeIs404 ==
    \A c \in ConfirmSlots :
        (cf[c].pc \notin {"idle", "get"} /\ ~cf[c].live /\ cf[c].resp.status # 400) =>
            /\ cf[c].pc = "done"
            /\ cf[c].resp.status = 404
            /\ ~cf[c].wrote

C8_Witness ==
    \E c, d \in ConfirmSlots :
        /\ cf[c].pc = "done" /\ cf[c].pairCode = "A7F3KQ" /\ ~cf[c].live
        /\ cf[c].resp.status = 404
        /\ cf[d].pc = "done" /\ cf[d].pairCode = "ZZZZZZ" /\ cf[d].resp.status = 404
        /\ \E p \in PairSlots : pcr[p].pc = "done" /\ pcr[p].resp.status = 200

\* C9: of the confirms of one issued pairing code, at most one answers
\* linked:true.
C9_AtMostOneLinked ==
    \A k \in PairCodes : linked[k] <= 1

\* C10: an Ack whose messageId is not in the receiver's mailbox answers
\* ok:true, consumed:false and writes and deletes nothing.
C10_AckOfAbsentIsNoop ==
    \A a \in AckSlots :
        (ak[a].pc \notin {"idle", "get"} /\ ~ak[a].present /\ ak[a].resp.status # 400) =>
            /\ ak[a].pc = "done"
            /\ ak[a].resp = AckResponse(FALSE)
            /\ ~ak[a].wrote

C10_Witness ==
    \E a, b \in AckSlots :
        /\ ak[a].pc = "done" /\ ak[a].wrote /\ ak[a].resp = AckResponse(TRUE)
        /\ ak[b].pc = "done" /\ ~ak[b].present /\ ak[b].resp = AckResponse(FALSE)
        /\ ak[b].messageId = ak[a].messageId
        /\ ak[b].receiverDeviceId = ak[a].receiverDeviceId
        /\ ~Live(nearby[DeviceR])

\* C11: a Poll that finds a head item carrying a messageId answers found:true
\* with that item and writes or deletes nothing; and as long as no Share, Ack
\* or expiry touched the mailbox since a Poll read it, the item that Poll
\* returned is still the head of the mailbox, so every repeated Poll returns
\* the same item.
C11_PollIsPeek ==
    /\ \A p \in PollSlots :
        /\ (po[p].pc \notin {"idle", "get"} /\ po[p].head.messageId # "")
            => /\ po[p].pc = "done"
               /\ po[p].resp.status = 200 /\ po[p].resp.found
               /\ po[p].resp.item = po[p].head
               /\ ~po[p].wrote
        /\ (po[p].pc = "done" /\ po[p].fresh)
            => /\ Live(nearby[po[p].receiverDeviceId])
               /\ po[p].resp.status = 200 /\ po[p].resp.found
               /\ po[p].resp.item = Head(nearby[po[p].receiverDeviceId].items)
    /\ \A p, q \in PollSlots :
        (/\ po[p].pc = "done" /\ po[p].fresh
         /\ po[q].pc = "done" /\ po[q].fresh
         /\ po[p].receiverDeviceId = po[q].receiverDeviceId)
            => po[p].resp.item.messageId = po[q].resp.item.messageId

\* Two Polls of one mailbox have both returned its message, and it is still there.
C11_Witness ==
    /\ \A p \in PollSlots :
        /\ po[p].pc = "done" /\ po[p].fresh /\ po[p].resp.found
        /\ po[p].resp.item.messageId = "msg-0001"
    /\ budget["poll"] = 0
    /\ Live(nearby[DeviceR])

\* C12: a join of a device the room already lists leaves the member count as
\* it was; every successful join of the same device to the same room answers
\* the same memberCount; and the list a join writes, like every stored list,
\* names the device exactly once.
C12_JoinIdempotent ==
    /\ \A j \in JoinSlots :
        /\ (rj[j].pc = "done" /\ rj[j].resp.status = 200 /\ rj[j].rejoin)
            => rj[j].resp.memberCount = rj[j].before
        /\ rj[j].pc = "set"
            => Cardinality({n \in DOMAIN rj[j].members :
                               rj[j].members[n] = rj[j].deviceId}) = 1
    /\ \A j, k \in JoinSlots :
        (/\ rj[j].pc = "done" /\ rj[j].resp.status = 200
         /\ rj[k].pc = "done" /\ rj[k].resp.status = 200
         /\ rj[j].roomCode = rj[k].roomCode /\ rj[j].deviceId = rj[k].deviceId)
            => rj[j].resp.memberCount = rj[k].resp.memberCount
    /\ \A c \in RoomCodes :
        \A n, m \in DOMAIN rooms[c].members :
            rooms[c].members[n] = rooms[c].members[m] => n = m

\* T joined the room, and joined it again: both answers count two members.
C12_Witness ==
    /\ rj["j1"].pc = "done" /\ rj["j1"].resp.status = 200 /\ ~rj["j1"].rejoin
    /\ rj["j2"].pc = "done" /\ rj["j2"].resp.status = 200 /\ rj["j2"].rejoin
    /\ rj["j1"].deviceId = DeviceT /\ rj["j2"].deviceId = DeviceT
    /\ rj["j2"].resp.memberCount = 2
    /\ rooms["123456"].members = <<DeviceR, DeviceT>>

\* C13: run one request at a time, a Share of a sender whose pairing is in the
\* store answers nearbyQueued:true for one target; a Poll that reads the
\* mailbox answers found:true with an item that carries a messageId and
\* the content of the shared clip; an Ack of a
\* message that is in the mailbox answers consumed:true and leaves no trace of
\* it; a Poll that reads no mailbox answers found:false.
C13_PairShareRelay ==
    /\ \A c \in ConfirmSlots :
        (cf[c].pc = "done" /\ cf[c].live)
            => cf[c].resp.status = 200 /\ cf[c].resp.linked
    /\ \A s \in ShareSlots :
        (sh[s].pc = "done" /\ sh[s].resp.status = 200 /\ sh[s].pairLive)
            => /\ sh[s].resp.nearbyQueued
               /\ sh[s].resp.nearbyReason = "queued"
               /\ sh[s].resp.nearbyTargets = 1
    /\ \A p \in PollSlots :
        (po[p].pc = "done" /\ po[p].resp.status = 200)
            => /\ po[p].resp.found <=> po[p].head # NoItem
               /\ po[p].resp.found =>
                    /\ po[p].resp.item.messageId \in {createMessageId(n) : n \in 1..nextMsg}
                    /\ po[p].resp.item.code \in Codes
                    /\ po[p].resp.item.links = clips[po[p].resp.item.code].links
                    /\ po[p].resp.item.text = clips[po[p].resp.item.code].text
    /\ \A a \in AckSlots :
        (ak[a].pc = "done" /\ ak[a].present)
            => /\ ak[a].resp.status = 200 /\ ak[a].resp.consumed
               /\ \A n \in DOMAIN nearby[ak[a].receiverDeviceId].items :
                    nearby[ak[a].receiverDeviceId].items[n].messageId # ak[a].messageId

\* The scenario has run to its end: paired, one Share queued, polled with the
\* message, acknowledged, polled again with nothing.
C13_Witness ==
    /\ pcr["p1"].pc = "done" /\ pcr["p1"].resp.status = 200
    /\ cf["c1"].pc = "done" /\ cf["c1"].resp.status = 200 /\ cf["c1"].resp.linked
    /\ budget["share"] = MaxRequests - 1
    /\ sh["s1"].pc = "done" /\ sh["s1"].resp.status = 200 /\ sh["s1"].resp.nearbyQueued
    /\ po["o1"].pc = "done" /\ po["o1"].resp.status = 200 /\ po["o1"].resp.found
    /\ po["o1"].resp.item.messageId = "msg-0001"
    /\ ak["a1"].pc = "done" /\ ak["a1"].resp.status = 200 /\ ak["a1"].resp.consumed
    /\ ak["a1"].messageId = "msg-0001"
    /\ po["o2"].pc = "done" /\ po["o2"].resp.status = 200 /\ ~po["o2"].resp.found
    /\ ~Live(nearby[DeviceR])
    /\ Quiet

\* C15: every mailbox write of a Share stores the messages the mailbox held,
\* in their order, followed by the new message.
C15_PublishAppends == \A s \in ShareSlots : ~sh[s].dropped

\* C16: while the receiver has sent no Poll and no Ack and no key has expired,
\* every message published so far is waiting in the receiver's mailbox once
\* the Shares have answered, so that the Polls to come can return it.
C16_PublishedIsWaiting ==
    (Quiet /\ budget["poll"] = MaxRequests /\ budget["ack"] = MaxWrites)
        => \A n \in 1..nextMsg :
               \E k \in DOMAIN nearby[DeviceR].items :
                   nearby[DeviceR].items[k].messageId = createMessageId(n)

\* C14: a Share whose body breaks a validation rule ends right after the
\* validation with 400 (413 for a text that is too long): it never reaches
\* the code generation, the clip write, the pairing refresh or the publish
\* loop; no clip and no mailbox exists, and the sender's pairing keeps the
\* TTL it had, less the time that passed.
C14_InvalidShareHasNoEffect ==
    /\ \A s \in ShareSlots :
        sh[s].verdict # 0
            => /\ sh[s].pc \in {"rl_expire", "rl_ttl", "done"}
               /\ ~sh[s].stored
               /\ sh[s].pc = "done"
                    => /\ sh[s].resp.status = sh[s].verdict
                       /\ sh[s].verdict \in {400, 413}
    /\ \A c \in Codes : ~Live(clips[c])
    /\ \A d \in ValidDeviceIds : ~Live(nearby[d])
    /\ Live(senderPairs[DeviceS]) => senderPairs[DeviceS].receiverDeviceId = DeviceR
    /\ IF ticksLeft = MaxTicks THEN senderPairs[DeviceS].ttl = PAIRING_TTL_SECONDS
       ELSE senderPairs[DeviceS].ttl < PAIRING_TTL_SECONDS

\* A body with an ftp link was answered 400 and one with a long text 413.
C14_Witness ==
    /\ sh["s1"].pc = "done" /\ sh["s1"].resp.status = 400 /\ sh["s1"].verdict = 400
    /\ sh["s2"].pc = "done" /\ sh["s2"].resp.status = 413 /\ sh["s2"].verdict = 413
    /\ Live(senderPairs[DeviceS])
    /\ senderPairs[DeviceS].ttl < PAIRING_TTL_SECONDS

\* C17: a Share answered 200 reports "no_sender_device" when it named no valid
\* sender device; "not_paired" when it named one, gave no room code and the
\* store held no pairing for the sender; and "invalid_pair_payload" only when
\* the store held a pairing that resolved to no receiver.
C17_PairingReason ==
    \A s \in ShareSlots :
        (sh[s].pc = "done" /\ sh[s].resp.status = 200)
            => /\ sh[s].sender = "" => sh[s].resp.nearbyReason = "no_sender_device"
               /\ (sh[s].sender # "" /\ sh[s].roomCode = "" /\ ~sh[s].pairLive)
                    => sh[s].resp.nearbyReason = "not_paired"
               /\ sh[s].resp.nearbyReason = "invalid_pair_payload"
                    => sh[s].pairLive /\ ~sh[s].pairFound

\* C18: a Share answered 200 that named a valid sender and a room code and
\* published to no target reports "room_not_found" exactly when the store held
\* no room for the code, and "room_empty" exactly when it held one that lists
\* no device other than the sender.
C18_RoomReason ==
    \A s \in ShareSlots :
        (/\ sh[s].pc = "done" /\ sh[s].resp.status = 200
         /\ sh[s].sender # "" /\ sh[s].roomCode # ""
         /\ ~sh[s].resp.nearbyQueued)
            => /\ sh[s].resp.nearbyReason = "room_not_found" <=> ~sh[s].roomLive
               /\ sh[s].resp.nearbyReason = "room_empty"
                    <=> (sh[s].roomLive /\ ~sh[s].roomOthers)
               /\ sh[s].resp.nearbyTargets = 0

\* The host, alone in its room, shared to it and was told the room is empty.
C18_Witness ==
    \E s \in ShareSlots :
        /\ sh[s].pc = "done" /\ sh[s].resp.status = 200
        /\ sh[s].sender = DeviceR /\ sh[s].roomCode = "123456"
        /\ sh[s].roomLive /\ ~sh[s].roomOthers
        /\ sh[s].resp.nearbyReason = "room_empty"

\* C20: a Share that stored its clip answers 200 with the code.
C20_StoredClipIsAnswered ==
    \A s \in ShareSlots :
        (sh[s].pc = "done" /\ sh[s].stored)
            => sh[s].resp.status = 200 /\ sh[s].resp.code \in Codes

\* C19: within one window (no time has passed), a pair create or pair confirm
\* that wrote to the store was counted first: the store holds a rate counter of
\* its endpoint, one that is not Share's or Fetch's, with at least that call.
C19_WritersAreCounted ==
    (/\ ticksLeft = MaxTicks
     /\ \/ \E c \in ConfirmSlots : cf[c].wrote
        \/ \E p \in PairSlots : pcr[p].pc = "done" /\ pcr[p].resp.status = 200)
        => \E k \in DOMAIN rl : k[1] \notin {"share", "fetch"} /\ rl[k].count >= 1

C22_UnlinkChangesNothing ==
    \A u \in UnlinkSlots :
        (un[u].pc = "done" /\ ~un[u].hadPair) =>
            un[u].resp.status = 200 /\ un[u].resp.ok /\ ~un[u].changed

\* C22: an unlink of a sender that has no pairing answers ok; it deletes no
\* pairing when the request names no receiver, and otherwise nothing but the
\* pairing of the named receiver that pointed back at the sender.
C22_UnlinkIdempotent ==
    \A u \in UnlinkSlots :
        (un[u].pc = "done" /\ ~un[u].hadPair) =>
            /\ un[u].resp.status = 200 /\ un[u].resp.ok
            /\ un[u].changed =>
                /\ un[u].given
                /\ un[u].before[un[u].receiverDeviceId] = un[u].senderDeviceId

\* S, unlinked before, has been unlinked once more with no receiver named,
\* and the pairing of R with T is as it was.
C22_Witness ==
    /\ \E u \in UnlinkSlots :
        /\ un[u].pc = "done" /\ ~un[u].hadPair /\ ~un[u].given /\ ~un[u].changed
        /\ un[u].senderDeviceId = DeviceS /\ un[u].resp.ok
    /\ Live(senderPairs[DeviceR])

\* C23: a Join of a room code that holds no live room answers 404, and no
\* Join stores a room under a code whose room is gone, also when the room
\* expires between the read of the Join and its write.
C23_JoinNeverRecreates ==
    \A j \in JoinSlots :
        /\ (rj[j].pc = "done" /\ rj[j].resp.status = 404) =>
                ~rj[j].recreated /\ ~Live(rooms[rj[j].roomCode])
        /\ ~rj[j].recreated

\* C24: no Join rewrites the room with a TTL greater than the TTL the room
\* has left as the Join looks it up.
C24_JoinNeverExtends ==
    \A j \in JoinSlots : ~rj[j].extended

\* No Join has been sent yet.
NoJoinYet == \A j \in JoinSlots : rj[j].pc = "idle"

\* C25: a room creation that answers 200 chose a code that had no live room
\* at its existence check and reports memberCount 1 and 7200 seconds; until a
\* Join is sent the room holds the host and nobody else, with 7200 seconds
\* to live as it is stored.
C25_RoomSeededWithHost ==
    \A r \in RoomSlots :
        (rc[r].pc = "done" /\ rc[r].resp.status = 200) =>
            /\ rc[r].free
            /\ rc[r].resp.memberCount = 1
            /\ rc[r].resp.expiresIn = ROOM_TTL_SECONDS
            /\ (NoJoinYet /\ Live(rooms[rc[r].resp.roomCode])) =>
                /\ rooms[rc[r].resp.roomCode].members = <<rc[r].hostDeviceId>>
                /\ rooms[rc[r].resp.roomCode].ttl <= ROOM_TTL_SECONDS
                /\ ticksLeft = MaxTicks =>
                       rooms[rc[r].resp.roomCode].ttl = ROOM_TTL_SECONDS

\* R has just opened a room, which holds R alone for two hours.
C25_Witness ==
    /\ NoJoinYet
    /\ ticksLeft = MaxTicks
    /\ \E r \in RoomSlots :
        /\ rc[r].pc = "done" /\ rc[r].resp.status = 200
        /\ rc[r].hostDeviceId = DeviceR
        /\ rooms[rc[r].resp.roomCode] =
               [hostDeviceId |-> DeviceR, members |-> <<DeviceR>>,
                  ttl |-> ROOM_TTL_SECONDS]

\* generateCode: "ABCDEFGHJKLMNPQRSTUVWXYZ23456789", no O, I, 0 or 1.
CodeCharset ==
    {"A", "B", "C", "D", "E", "F", "G", "H", "J", "K", "L", "M", "N", "P", "Q",
     "R", "S", "T", "U", "V", "W", "X", "Y", "Z", "2", "3", "4", "5", "6", "7",
     "8", "9"}

\* generateNumericCode: "0123456789".
NumericCharset == {"0", "1", "2", "3", "4", "5", "6", "7", "8", "9"}

\* The characters of the codes the generators draw here.
Chars(code) ==
    CASE code = "482" -> <<"4", "8", "2">>
      [] code = "7731" -> <<"7", "7", "3", "1">>
      [] code = "A7F3KQ" -> <<"A", "7", "F", "3", "K", "Q">>
      [] code = "B2M9XZ" -> <<"B", "2", "M", "9", "X", "Z">>
      [] code = "123456" -> <<"1", "2", "3", "4", "5", "6">>

Within(code, charset) == \A n \in DOMAIN Chars(code) : Chars(code)[n] \in charset

\* C26: every code a Share answers is made of uppercase letters and digits
\* other than O, I, 0 and 1; every code a pair creation or a room creation
\* answers is made of digits.
C26_CodeAlphabets ==
    /\ \A s \in ShareSlots :
        (sh[s].pc = "done" /\ sh[s].resp.status = 200) =>
            Within(sh[s].resp.code, CodeCharset)
    /\ \A p \in PairSlots :
        (pcr[p].pc = "done" /\ pcr[p].resp.status = 200) =>
            Within(pcr[p].resp.pairCode, NumericCharset)
    /\ \A r \in RoomSlots :
        (rc[r].pc = "done" /\ rc[r].resp.status = 200) =>
            Within(rc[r].resp.roomCode, NumericCharset)

\* The items of a queue whose id is not the given one, in their order.
Others(items, messageId) ==
    SelectSeq(items, LAMBDA item : item.messageId # messageId)

\* C27: an Ack that answers consumed true has removed from the queue it read
\* exactly the items with the given id, kept the others in their order, and
\* deleted the key when nothing was left.
C27_AckRemovesByValue ==
    \A a \in AckSlots :
        (ak[a].pc = "done" /\ ak[a].resp.status = 200 /\ ak[a].resp.consumed) =>
            /\ ak[a].wrote
            /\ ak[a].after = Others(ak[a].items, ak[a].messageId)
            /\ ak[a].kept <=> ak[a].after # <<>>

\* An Ack of msg-0002 took the middle item out of a queue of three.
C27_Witness ==
    \E a \in AckSlots :
        /\ ak[a].pc = "done" /\ ak[a].resp.status = 200 /\ ak[a].resp.consumed
        /\ ak[a].items = <<FirstItem, SecondItem, FirstAgain>>
        /\ ak[a].after = <<FirstItem, FirstAgain>>
        /\ ak[a].kept

C30_LegacyConsumedOnRead ==
    \A p \in PollSlots :
        /\ (po[p].pc = "done" /\ po[p].resp.status = 200 /\ po[p].items # <<>>
                /\ normalizeMessageId(Head(po[p].items).messageId) = "") =>
                /\ po[p].resp.found
                /\ po[p].resp.item = PollItem(Head(po[p].items))
                /\ po[p].wrote
                /\ po[p].after = Tail(po[p].items)
        /\ (po[p].pc = "done" /\ po[p].resp.status = 200 /\ po[p].resp.found) =>
                po[p].head \notin po[p].gone
        /\ (po[p].pc = "done" /\ po[p].resp.status = 200 /\ po[p].emptied) =>
                ~po[p].resp.found

\* A Poll consumed the only item of the mailbox, one without an id, and the
\* next Poll found nothing.
C30_Witness ==
    \E p \in PollSlots :
        /\ po[p].pc = "done" /\ po[p].emptied /\ ~po[p].resp.found
        /\ po[p].gone = {LegacyItem}

\* The ids of the items in the mailbox of R.
MailboxIds == {nearby[DeviceR].items[n].messageId : n \in DOMAIN nearby[DeviceR].items}

\* Every request is answered, and a Share has published a message to R.
BothComplete ==
    /\ Quiet
    /\ \E s \in ShareSlots :
        sh[s].pc = "done" /\ sh[s].resp.status = 200 /\ sh[s].resp.nearbyQueued

\* The message the last Share published is in the mailbox of R, and a Poll
\* that read the mailbox as it is returned it.
PublishedIsKept ==
    /\ createMessageId(nextMsg) \in MailboxIds
    /\ \A p \in PollSlots :
        (po[p].pc = "done" /\ po[p].fresh) =>
            po[p].resp.found /\ po[p].resp.item.messageId = createMessageId(nextMsg)

\* C28 as stated: after an Ack of msg-0001 and a Share publishing another
\* message to R have both completed, however interleaved, that message is in
\* the mailbox of R and the next Poll returns it.
C28_AckNeverDestroys == BothComplete => PublishedIsKept

\* C28: the same, when no Ack wrote back or deleted a mailbox that had
\* changed since it read it.
C28_AckKeepsWhenNotRaced ==
    (BothComplete /\ \A a \in AckSlots : ~ak[a].stale) => PublishedIsKept

\* An Ack consumed msg-0001, a Share then published msg-0003, and the Poll
\* after them returned it.
C28_Witness ==
    /\ BothComplete
    /\ \E a \in AckSlots : ak[a].pc = "done" /\ ak[a].wrote /\ ~ak[a].stale
    /\ \A a \in AckSlots : ~ak[a].stale
    /\ po["o1"].pc = "done" /\ po["o1"].fresh
    /\ po["o1"].resp.item.messageId = "msg-0003"

\* C31: a confirm deletes the pairing code only with the pairing of its
\* sender in the store, naming the receiver of the code, for 30 days; once it
\* answered, the status of the sender reports linked true with that receiver.
C31_PairedBeforeCodeRemoved ==
    /\ \A c \in ConfirmSlots :
        /\ cf[c].pc = "del" =>
               senderPairs[cf[c].senderDeviceId] =
                   [receiverDeviceId |-> cf[c].receiverDeviceId,
                    ttl |-> 60 * 60 * 24 * 30]
        /\ (cf[c].pc = "done" /\ cf[c].resp.status = 200) =>
               /\ cf[c].paired
               /\ cf[c].resp.linked
               /\ Live(senderPairs[cf[c].senderDeviceId])
    /\ \A q \in StatusSlots :
        (ps[q].pc = "done" /\ ps[q].linkedTo # {}) =>
            /\ ps[q].resp.status = 200 /\ ps[q].resp.linked
            /\ ps[q].resp.receiverDeviceId \in ps[q].linkedTo

\* A confirm of S removed the code of R, and the status of S asked for
\* afterwards names R.
C31_Witness ==
    /\ \E c \in ConfirmSlots :
        /\ cf[c].pc = "done" /\ cf[c].resp.status = 200
        /\ cf[c].senderDeviceId = DeviceS /\ cf[c].paired
        /\ ~Live(pairCodes[cf[c].pairCode])
    /\ ps["q1"].pc = "done" /\ ps["q1"].linkedTo = {DeviceR}
    /\ ps["q1"].resp.receiverDeviceId = DeviceR

\* C32: a Share whose sender resolves to a pairing resets that pairing to the
\* full 30 days and leaves its receiver alone; and with nothing but Shares
\* running, no device gets a pairing it did not have and the one pairing there
\* never points anywhere else.
C32_ShareRefreshesPairing ==
    /\ \A s \in ShareSlots :
          /\ sh[s].refresh \in {"", "reset", "gone"}
          /\ sh[s].pc = "done" /\ sh[s].resp.status = 200 /\ sh[s].pairFound
                => sh[s].refresh \in {"reset", "gone"}
          /\ sh[s].pc = "done" /\ ~sh[s].pairFound => sh[s].refresh = ""
    /\ \A d \in ValidDeviceIds :
          Live(senderPairs[d]) =>
              d = DeviceS /\ senderPairs[d].receiverDeviceId = DeviceR

C32_Witness ==
    \E s \in ShareSlots :
        /\ sh[s].pc = "done" /\ sh[s].resp.status = 200
        /\ sh[s].pairFound /\ sh[s].aged /\ sh[s].refresh = "reset"
        /\ senderPairs[sh[s].sender] =
               [receiverDeviceId |-> DeviceR, ttl |-> PAIRING_TTL_SECONDS]

\* C33 (as stated): no unlink deletes a pairing of the receiver that names a
\* device other than the unlinking sender.
C33_UnlinkNeverSevers ==
    \A u \in UnlinkSlots : ~un[u].severed

\* C33: an unlink deletes a pairing of the receiver that names another
\* device only when a confirm of the receiver wrote that pairing between the
\* unlink's read of the key and its delete; a pairing with another device that
\* the unlink read is left in the store.
C33_SeversOnlyWhenRaced ==
    \A u \in UnlinkSlots : un[u].severed => un[u].raced

C33_Witness ==
    \E u \in UnlinkSlots, c \in ConfirmSlots :
        /\ un[u].pc = "done" /\ un[u].resp.status = 200
        /\ un[u].raced /\ un[u].severed
        /\ cf[c].pc = "done" /\ cf[c].resp.status = 200
        /\ cf[c].senderDeviceId = DeviceR /\ cf[c].resp.receiverDeviceId = DeviceT
        /\ ~Live(senderPairs[DeviceR])

\* The device ids of a list, each as often as it is listed.
NoDuplicates(members) ==
    \A m, n \in DOMAIN members : members[m] = members[n] => m = n

JoinsComplete == \A j \in JoinSlots : rj[j].pc \in {"idle", "done"}

\* C35: once every Join has answered, each device whose Join answered 200 is
\* in the member list of the room it joined, while that room lives.
C35_NoLostJoin ==
    JoinsComplete =>
        \A j \in JoinSlots :
            (rj[j].pc = "done" /\ rj[j].resp.status = 200
                /\ Live(rooms[rj[j].roomCode])) =>
                    rj[j].deviceId \in Range(rooms[rj[j].roomCode].members)

\* The devices a Share of this sender with this room code is to reach: the
\* receiver the sender is paired with and the room's members but the sender.
FanoutTargets(sender, roomCode) ==
    (IF sender # "" /\ ResolveReceiver(senderPairs[sender]) # ""
     THEN {ResolveReceiver(senderPairs[sender])} ELSE {})
    \cup
    (IF sender # "" /\ roomCode \in RoomCodes /\ Live(rooms[roomCode])
     THEN Range(normalizeRoomMembers(rooms[roomCode].members)) \ {sender} ELSE {})

\* C36: a Share that answered 200 wrote the mailboxes of its pairing receiver
\* and of the room's other members, each once and no other; each of them
\* holds one message with the Share's code, links and text and an id of its
\* own, and lives for the Share's ttlSeconds.
C36_ShareFanout ==
    LET h == sh["s1"]
        targets == FanoutTargets(h.sender, h.roomCode)
    IN  (h.pc = "done" /\ h.resp.status = 200) =>
            /\ {w[1] : w \in Range(h.wrote)} = targets
            /\ Len(h.wrote) = Cardinality(targets)
            /\ \A m, n \in DOMAIN h.wrote : h.wrote[m][2] = h.wrote[n][2] => m = n
            /\ h.resp.nearbyTargets = Cardinality(targets)
            /\ h.resp.nearbyQueued = (targets # {})
            /\ \A d \in ValidDeviceIds :
                  IF d \in targets
                  THEN /\ nearby[d].ttl = h.resp.expiresIn
                       /\ Len(nearby[d].items) = 1
                       /\ nearby[d].items[1].code = h.resp.code
                       /\ nearby[d].items[1].links = CleanLinks(LinksAndText.links)
                       /\ nearby[d].items[1].text = Trim(LinksAndText.text)
                       /\ <<d, nearby[d].items[1].messageId>> \in Range(h.wrote)
                       /\ \A e \in ValidDeviceIds \ {d} :
                             \A k \in DOMAIN nearby[e].items :
                                 nearby[e].items[k].messageId #
                                     nearby[d].items[1].messageId
                  ELSE \A k \in DOMAIN nearby[d].items :
                           nearby[d].items[k].code # h.resp.code

\* S, paired with R, shared into the room of T, S and R: the mailboxes of R
\* and T were written, that of S was not.
C36_Witness ==
    /\ sh["s1"].pc = "done" /\ sh["s1"].resp.status = 200
    /\ sh["s1"].sender = DeviceS /\ sh["s1"].roomCode = "123456"
    /\ sh["s1"].resp.nearbyTargets = 2
    /\ Live(nearby[DeviceR]) /\ Live(nearby[DeviceT]) /\ ~Live(nearby[DeviceS])
    /\ nearby[DeviceR].items[1].messageId # nearby[DeviceT].items[1].messageId

\* C37: the loop of a Share or of a pairing-code creation is in one of its 5
\* rounds, that of a room creation in one of its 10, so no handler asks the
\* store more often; and a handler that answers 500 because every candidate
\* was taken leaves the clips, pairing codes, rooms and mailboxes as the
\* request found them.
C37_BoundedGeneration ==
    /\ \A s \in ShareSlots :
          /\ sh[s].i \in 0..(5 - 1)
          /\ sh[s].pc = "done" /\ sh[s].resp.status = 500 =>
                sh[s].clean /\ ~sh[s].stored /\ sh[s].wrote = <<>>
    /\ \A p \in PairSlots :
          /\ pcr[p].i \in 0..(5 - 1)
          /\ pcr[p].pc = "done" /\ pcr[p].resp.status = 500 => pcr[p].clean
    /\ \A r \in RoomSlots :
          /\ rc[r].i \in 0..(10 - 1)
          /\ rc[r].pc = "done" /\ rc[r].resp.status = 500 => rc[r].clean

\* With every code taken, the Share, the pairing-code creation and the room
\* creation have all answered 500, and the store is as it was.
C37_Witness ==
    /\ sh["s1"].pc = "done" /\ sh["s1"].resp.status = 500
    /\ pcr["p1"].pc = "done" /\ pcr["p1"].resp.status = 500
    /\ rc["r1"].pc = "done" /\ rc["r1"].resp.status = 500
    /\ clips = TakenClips({}) /\ pairCodes = TakenPairCodes({})
    /\ rooms = TakenRooms({}) /\ nearby = [d \in ValidDeviceIds |-> NoMail]

\* C38: a counter key that is in the store without an expiry has a caller
\* that saw the count 1 and is about to arm it, so that it gets its TTL;
\* also after a store call of a handler has failed.
C38_CounterGetsTtl ==
    \A k \in RlKeys :
        (Live(rl[k]) /\ rl[k].ttl = NoExpiry) =>
            \E s \in ShareSlots : sh[s].pc = "rl_expire" /\ ShareKey(s) = k

\* C39: a Fetch or a Share that comes after its window's limit is answered
\* 429, and a request answered 429, like any request still at its rate
\* check, has left the clips, pairing codes, rooms and mailboxes as it found
\* them: the Fetch has read no clip and returns none, the Share has stored
\* no clip and written no mailbox.
C39_RejectedHasNoEffect ==
    /\ \A f \in FetchSlots :
          /\ fe[f].over =>
                /\ fe[f].pc \in {"rl_expire", "rl_ttl", "done"}
                /\ fe[f].pc = "done" => fe[f].resp.status = 429
          /\ fe[f].pc \in {"rl_expire", "rl_ttl"} =>
                Untouched(fe[f].before) /\ fe[f].got = NoClip
          /\ (fe[f].pc = "done" /\ fe[f].resp.status = 429) =>
                /\ fe[f].clean /\ fe[f].got = NoClip
                /\ DOMAIN fe[f].resp = {"status", "retryAfterSeconds", "retryAfter"}
    /\ \A s \in ShareSlots :
          /\ sh[s].over =>
                /\ sh[s].pc \in {"rl_expire", "rl_ttl", "done"}
                /\ sh[s].pc = "done" => sh[s].resp.status = 429
          /\ sh[s].pc \in {"rl_expire", "rl_ttl"} =>
                Untouched(sh[s].before) /\ ~sh[s].stored /\ sh[s].wrote = <<>>
          /\ (sh[s].pc = "done" /\ sh[s].resp.status = 429) =>
                sh[s].clean /\ ~sh[s].stored /\ sh[s].wrote = <<>>

\* A Fetch of 482 was answered 429; once the window had passed, another
\* Fetch was served the clip. A Share was answered 429 as well.
C39_Witness ==
    /\ \E f, g \in FetchSlots :
          /\ fe[f].pc = "done" /\ fe[f].resp.status = 429 /\ fe[f].over
          /\ fe[g].pc = "done" /\ fe[g].resp.status = 200
          /\ fe[g].resp.text = "memo"
    /\ sh["s1"].pc = "done" /\ sh["s1"].resp.status = 429
    /\ ~Live(clips["7731"]) /\ ~Live(nearby[DeviceR])

\* C40: a Share of a sender that has no pairing writes mailboxes only when
\* the sender is a member of the room it names.
C40_BroadcastOnlyByMembers ==
    \A s \in ShareSlots :
        (sh[s].wrote # <<>> /\ ~sh[s].pairFound) => sh[s].roomMember
====
